---- MODULE Spec2Model ----
(***************************************************************************)
(* A model of raytmx's document ingestion pipeline: the incremental,      *)
(* re-entrant XML tokenizer hoxml (src/external/hoxml.h) and the loader   *)
(* that drives it (src/raytmx.h).  Bytes are integers 0..255, addresses   *)
(* are integers with 0 standing for NULL, and the parser's working buffer *)
(* is the list of the nodes that live in it.                               *)
(***************************************************************************)
EXTENDS Integers, Sequences, FiniteSets, TLC

(***************************************************************************)
(* hoxml_code_t                                                            *)
(***************************************************************************)
HOXML_ERROR_INVALID_INPUT == -9
HOXML_ERROR_INTERNAL == -8
HOXML_ERROR_INSUFFICIENT_MEMORY == -7
HOXML_ERROR_UNEXPECTED_EOF == -6
HOXML_ERROR_SYNTAX == -5
HOXML_ERROR_ENCODING == -4
HOXML_ERROR_TAG_MISMATCH == -3
HOXML_ERROR_INVALID_DOCUMENT_TYPE_DECLARATION == -2
HOXML_ERROR_INVALID_DOCUMENT_DECLARATION == -1
HOXML_END_OF_DOCUMENT == 0
HOXML_ELEMENT_BEGIN == 1
HOXML_ELEMENT_END == 2
HOXML_ATTRIBUTE == 3
HOXML_PROCESSING_INSTRUCTION_BEGIN == 4
HOXML_PROCESSING_INSTRUCTION_END == 5

(***************************************************************************)
(* Parser states and post states                                           *)
(***************************************************************************)
HOXML_STATE_ERROR_INTERNAL == -8
HOXML_STATE_ERROR_INSUFFICIENT_MEMORY == -7
HOXML_STATE_ERROR_UNEXPECTED_EOF == -6
HOXML_STATE_ERROR_SYNTAX == -5
HOXML_STATE_ERROR_ENCODING == -4
HOXML_STATE_ERROR_TAG_MISMATCH == -3
HOXML_STATE_ERROR_INVALID_DOCUMENT_TYPE_DECLARATION == -2
HOXML_STATE_ERROR_INVALID_DOCUMENT_DECLARATION == -1
HOXML_STATE_NONE == 0
HOXML_STATE_UTF8_BOM1 == 1
HOXML_STATE_UTF8_BOM2 == 2
HOXML_STATE_UTF16BE_BOM == 3
HOXML_STATE_UTF16LE_BOM == 4
HOXML_STATE_TAG_BEGIN == 5
HOXML_STATE_TAG_END == 6
HOXML_STATE_ELEMENT_NAME1 == 7
HOXML_STATE_ELEMENT_NAME2 == 8
HOXML_STATE_ATTRIBUTE_NAME1 == 9
HOXML_STATE_ATTRIBUTE_NAME2 == 10
HOXML_STATE_ATTRIBUTE_ASSIGNMENT == 11
HOXML_STATE_ATTRIBUTE_VALUE == 12
HOXML_STATE_OPEN_TAG == 13
HOXML_STATE_COMMENT_CDATA_OR_DTD_BEGIN == 14
HOXML_STATE_COMMENT_BEGIN == 15
HOXML_STATE_COMMENT == 16
HOXML_STATE_COMMENT_END1 == 17
HOXML_STATE_COMMENT_END2 == 18
HOXML_STATE_CDATA_BEGIN1 == 19
HOXML_STATE_CDATA_BEGIN2 == 20
HOXML_STATE_CDATA_BEGIN3 == 21
HOXML_STATE_CDATA_BEGIN4 == 22
HOXML_STATE_CDATA_BEGIN5 == 23
HOXML_STATE_CDATA_BEGIN6 == 24
HOXML_STATE_CDATA_CONTENT == 25
HOXML_STATE_CDATA_END1 == 26
HOXML_STATE_CDATA_END2 == 27
HOXML_STATE_REFERENCE_BEGIN == 28
HOXML_STATE_REFERENCE_ENTITY == 29
HOXML_STATE_REFERENCE_NUMERIC == 30
HOXML_STATE_REFERENCE_HEX == 31
HOXML_STATE_PROCESSING_INSTRUCTION_BEGIN == 32
HOXML_STATE_PROCESSING_INSTRUCTION_TARGET1 == 33
HOXML_STATE_PROCESSING_INSTRUCTION_TARGET2 == 34
HOXML_STATE_PROCESSING_INSTRUCTION_CONTENT == 35
HOXML_STATE_PROCESSING_INSTRUCTION_END == 36
HOXML_STATE_DTD_BEGIN1 == 37
HOXML_STATE_DTD_BEGIN2 == 38
HOXML_STATE_DTD_BEGIN3 == 39
HOXML_STATE_DTD_BEGIN4 == 40
HOXML_STATE_DTD_BEGIN5 == 41
HOXML_STATE_DTD_BEGIN6 == 42
HOXML_STATE_DTD_BEGIN7 == 43
HOXML_STATE_DTD_BEGIN8 == 44
HOXML_STATE_DTD_NAME == 45
HOXML_STATE_DTD_CONTENT == 46
HOXML_STATE_DTD_OPEN_BRACKET == 47
HOXML_STATE_DONE == 48
HOXML_POST_STATE_TAG_END == 49
HOXML_POST_STATE_ATTRIBUTE_END == 50

(***************************************************************************)
(* Node flags, encodings, comparison modes, reference types                *)
(***************************************************************************)
HOXML_FLAG_END_TAG == 1
HOXML_FLAG_EMPTY_ELEMENT == 2
HOXML_FLAG_PROCESSING_INSTRUCTION == 4
HOXML_FLAG_DOUBLE_QUOTE == 8
HOXML_FLAG_TERMINATED == 16
HOXML_FLAG_BEGUN == 32
HOXML_FLAG_INCREMENT_DEPTH == 64
HOXML_FLAG_DECREMENT_DEPTH == 128

HOXML_ENC_UNKNOWN == 0
HOXML_ENC_UTF_8 == 1
HOXML_ENC_UTF_16_LE == 2
HOXML_ENC_UTF_16_BE == 3

HOXML_CASE_SENSITIVE == 0
HOXML_CASE_INSENSITIVE == 1

HOXML_REF_TYPE_ENTITY == 0
HOXML_REF_TYPE_NUMERIC == 1
HOXML_REF_TYPE_HEX == 2

\* An unsigned is held as its 32-bit pattern read in two's complement, so that
\* 0x80000000..0xffffffff are the negative numbers: UINT32_MAX is 0xffffffff.
UINT32_MAX == -1

\* sizeof(hoxml_node_t) and offsetof(hoxml_node_t, tag) with 8-byte pointers
\* and a 4-byte int: parent at 0, end at 8, flags at 16, tag at 20.
SizeofNode == 24
OffsetofTag == 20

NULL == 0

\* The characters the parser's switch names, by their ASCII codes.
Ch == [lt |-> 60, gt |-> 62, slash |-> 47, qm |-> 63, bang |-> 33, eq |-> 61,
       dq |-> 34, sq |-> 39, amp |-> 38, semi |-> 59, hash |-> 35, dash |-> 45,
       lbr |-> 91, rbr |-> 93, sp |-> 32, tab |-> 9, lf |-> 10, cr |-> 13,
       colon |-> 58, us |-> 95, dot |-> 46,
       A |-> 65, C |-> 67, D |-> 68, E |-> 69, O |-> 79, P |-> 80, T |-> 84,
       Y |-> 89, Z |-> 90, F |-> 70,
       a |-> 97, b |-> 98, f |-> 102, g |-> 103, l |-> 108, m |-> 109,
       o |-> 111, p |-> 112, q |-> 113, s |-> 115, t |-> 116, u |-> 117,
       x |-> 120, z |-> 122, d0 |-> 48, d9 |-> 57]

(***************************************************************************)
(* Arithmetic helpers for C's bit operations                               *)
(***************************************************************************)
Min(a, b) == IF a < b THEN a ELSE b

\* A local variable of the C code: the value is computed once and the body
\* reads it by name
Let(v, Body(_)) == Body(v)

\* f & b # 0, f |= b and f &= ~b for a single-bit mask b
HasFlag(f, b) == (f \div b) % 2 = 1
SetFlag(f, b) == IF HasFlag(f, b) THEN f ELSE f + b
ClearFlag(f, b) == IF HasFlag(f, b) THEN f - b ELSE f

RECURSIVE BitOrNat(_, _)
BitOrNat(a, b) ==
    IF a = 0 THEN b
    ELSE IF b = 0 THEN a
    ELSE 2 * BitOrNat(a \div 2, b \div 2) + (IF a % 2 = 1 \/ b % 2 = 1 THEN 1 ELSE 0)

RECURSIVE BitAndNat(_, _)
BitAndNat(a, b) ==
    IF a = 0 \/ b = 0 THEN 0
    ELSE 2 * BitAndNat(a \div 2, b \div 2) + (IF a % 2 = 1 /\ b % 2 = 1 THEN 1 ELSE 0)

\* a | b on 32-bit patterns; ~x is -1 - x
BitOr(a, b) ==
    IF a >= 0 /\ b >= 0 THEN BitOrNat(a, b)
    ELSE IF a < 0 /\ b < 0 THEN -1 - BitAndNat(-1 - a, -1 - b)
    ELSE LET neg == IF a < 0 THEN a ELSE b
             pos == IF a < 0 THEN b ELSE a
         IN  -1 - ((-1 - neg) - BitAndNat(-1 - neg, pos))

\* byte k (0 = least significant) of a little-endian integer below 2^31
LEByte(v, k) == IF k >= 4 THEN 0 ELSE (v \div (256 ^ k)) % 256

\* str[i] of a byte string that is followed by zeroes
At(str, i) == IF i + 1 <= Len(str) THEN str[i + 1] ELSE 0

\* The value of a char converted to unsigned: sign-extended to 32 bits when
\* plain char is a signed type, as the build decides.
CharToUnsigned(byte, charSigned) ==
    IF charSigned /\ byte >= 128 THEN byte - 256 ELSE byte

(***************************************************************************)
(* Character classes (the HOXML_IS_* macros), on a decoded codepoint       *)
(***************************************************************************)
HOXML_TO_LOWER(c) == IF c >= Ch.A /\ c <= Ch.Z THEN c + 32 ELSE c
HOXML_IS_NEW_LINE(c) == c = 10 \/ c = 13
HOXML_IS_WHITESPACE(c) == c = 32 \/ c = 9 \/ HOXML_IS_NEW_LINE(c)
HOXML_IS_ASCII_CHAR(c) == c >= 33 /\ c <= 127
HOXML_IS_CHAR_DATA(c) == c # Ch.lt /\ c # Ch.amp
HOXML_IS_ALPHA(c) == (c >= Ch.a /\ c <= Ch.z) \/ (c >= Ch.A /\ c <= Ch.Z)
HOXML_IS_NUMERIC(c) == c >= Ch.d0 /\ c <= Ch.d9
HOXML_IS_NAME_START_CHAR(c) ==
    \/ HOXML_IS_ALPHA(c)
    \/ c = Ch.colon
    \/ c = Ch.us
    \/ (c >= 192 /\ c <= 214)
    \/ (c >= 216 /\ c <= 246)
    \/ (c < 0 \/ c >= 248)     \* unsigned c >= 0xF8
HOXML_IS_NAME_CHAR(c) ==
    HOXML_IS_NAME_START_CHAR(c) \/ c = Ch.dash \/ c = Ch.dot \/ HOXML_IS_NUMERIC(c)
HOXML_IS_HEX_CHAR(c) ==
    HOXML_IS_NUMERIC(c) \/ (c >= Ch.a /\ c <= Ch.f) \/ (c >= Ch.A /\ c <= Ch.F)
HOXML_IS_VALUE_CHAR_DATA(f, c) ==
    HOXML_IS_CHAR_DATA(c) /\
        ((HasFlag(f, HOXML_FLAG_DOUBLE_QUOTE) /\ c # Ch.dq) \/ c # Ch.sq)

(***************************************************************************)
(* hoxml_character_t and the codec.  str is the byte string at the pointer *)
(* handed to the function (read with At), str_length what the caller says  *)
(* is available there.  encoded is the bytes memcpy'd into c.encoded.      *)
(***************************************************************************)
DecodedBytes(str, encoding) ==
    CASE encoding = HOXML_ENC_UNKNOWN -> 1
      [] encoding = HOXML_ENC_UTF_8 ->
            IF At(str, 0) \div 128 = 0 THEN 1
            ELSE IF At(str, 0) \div 32 = 6 THEN 2
            ELSE IF At(str, 0) \div 16 = 14 THEN 3
            ELSE IF At(str, 0) \div 8 = 30 THEN 4
            ELSE 0
      [] encoding = HOXML_ENC_UTF_16_BE ->
            IF At(str, 0) \div 4 = 54 /\ At(str, 2) \div 4 = 55 THEN 4 ELSE 2
      [] encoding = HOXML_ENC_UTF_16_LE ->
            IF At(str, 1) \div 4 = 54 /\ At(str, 3) \div 4 = 55 THEN 4 ELSE 2
      [] OTHER -> 0

\* ((unsigned)hi << 8) | ((unsigned)lo << 0) on chars
Utf16Unit(hi, lo, charSigned) ==
    BitOr(CharToUnsigned(hi, charSigned) * 256, CharToUnsigned(lo, charSigned))

\* (((unsigned)(a & 3) << 18) | ((unsigned)b << 16) | ((unsigned)(c & 3) << 8)
\*   | ((unsigned)d << 0)) + 0x00010000
Utf16Pair(a, b, c, d, charSigned) ==
    BitOr(BitOr((a % 4) * 262144, CharToUnsigned(b, charSigned) * 65536),
          BitOr((c % 4) * 256, CharToUnsigned(d, charSigned)))
        + 65536

DecodedCodepoint(str, n, encoding, charSigned) ==
    CASE encoding = HOXML_ENC_UNKNOWN -> CharToUnsigned(At(str, 0), charSigned)
      [] encoding = HOXML_ENC_UTF_8 ->
            CASE n = 1 -> At(str, 0) % 128
              [] n = 2 -> (At(str, 0) % 32) * 64 + (At(str, 1) % 64)
              [] n = 3 -> (At(str, 0) % 16) * 4096 + (At(str, 1) % 64) * 64
                            + (At(str, 2) % 64)
              [] n = 4 -> (At(str, 0) % 8) * 262144 + (At(str, 1) % 64) * 4096
                            + (At(str, 2) % 64) * 64 + (At(str, 3) % 64)
              [] OTHER -> 0
      [] encoding = HOXML_ENC_UTF_16_BE ->
            IF n = 2 THEN Utf16Unit(At(str, 0), At(str, 1), charSigned)
            ELSE Utf16Pair(At(str, 0), At(str, 1), At(str, 2), At(str, 3), charSigned)
      [] encoding = HOXML_ENC_UTF_16_LE ->
            IF n = 2 THEN Utf16Unit(At(str, 1), At(str, 0), charSigned)
            ELSE Utf16Pair(At(str, 1), At(str, 0), At(str, 3), At(str, 2), charSigned)
      [] OTHER -> 0

hoxml_decode_character(str, str_length, encoding, charSigned) ==
    Let(DecodedBytes(str, encoding), LAMBDA n :
        IF n > str_length
        THEN [encoded |-> << >>, codepoint |-> UINT32_MAX, bytes |-> 0]
        ELSE [encoded |-> [i \in 1..n |-> At(str, i - 1)],
              codepoint |-> DecodedCodepoint(str, n, encoding, charSigned),
              bytes |-> n])

\* c.encoded read as the unsigned it is (little-endian, unused bytes zero)
EncodedValue(c) ==
    At(c.encoded, 0) + 256 * At(c.encoded, 1) + 65536 * At(c.encoded, 2)
        + 16777216 * (IF At(c.encoded, 3) >= 128 THEN At(c.encoded, 3) - 256
                      ELSE At(c.encoded, 3))

NoCharacter == [encoded |-> << >>, codepoint |-> 0, bytes |-> 0]

\* 0x80 | (char)v and friends: the low byte of the or
OrByte(mask, v) == BitOr(mask, v % 256) % 256

hoxml_encode_character(codepoint, encoding) ==
    CASE encoding \in {HOXML_ENC_UNKNOWN, HOXML_ENC_UTF_8} ->
            IF codepoint >= 0 /\ codepoint <= 127
            THEN [encoded |-> <<codepoint>>, codepoint |-> codepoint, bytes |-> 1]
            ELSE IF codepoint >= 128 /\ codepoint <= 2047
            THEN [encoded |-> <<OrByte(192, (codepoint % 2048) \div 64),
                                OrByte(128, codepoint % 256)>>,
                  codepoint |-> codepoint, bytes |-> 2]
            ELSE IF (codepoint >= 2048 /\ codepoint <= 55295)
                        \/ (codepoint >= 57344 /\ codepoint <= 65535)
            THEN [encoded |-> <<OrByte(224, (codepoint % 65536) \div 4096),
                                OrByte(128, (codepoint % 4096) \div 64),
                                OrByte(128, codepoint % 64)>>,
                  codepoint |-> codepoint, bytes |-> 3]
            ELSE IF codepoint >= 65536 /\ codepoint <= 1114111
            THEN [encoded |-> <<OrByte(240, (codepoint % 2097152) \div 262144),
                                OrByte(128, (codepoint % 262144) \div 4096),
                                OrByte(128, (codepoint % 4096) \div 64),
                                OrByte(128, codepoint % 64)>>,
                  codepoint |-> codepoint, bytes |-> 4]
            ELSE [encoded |-> << >>, codepoint |-> codepoint, bytes |-> 0]
      [] encoding = HOXML_ENC_UTF_16_BE ->
            IF (codepoint >= 0 /\ codepoint <= 55295)
                    \/ (codepoint >= 57344 /\ codepoint <= 65535)
            THEN [encoded |-> <<(codepoint % 65536) \div 256, codepoint % 256>>,
                  codepoint |-> codepoint, bytes |-> 2]
            ELSE IF codepoint >= 65536 /\ codepoint <= 1114111
            THEN LET v == codepoint - 65536 IN
                 [encoded |-> <<OrByte(216, (((v \div 262144) % 4) * 262144) \div 1048576),
                                ((((v \div 1024) % 256) * 1024) \div 262144) % 256,
                                OrByte(220, (v \div 256) % 4),
                                v % 256>>,
                  codepoint |-> v, bytes |-> 4]
            ELSE [encoded |-> << >>, codepoint |-> codepoint, bytes |-> 0]
      [] encoding = HOXML_ENC_UTF_16_LE ->
            IF (codepoint >= 0 /\ codepoint <= 55295)
                    \/ (codepoint >= 57344 /\ codepoint <= 65535)
            THEN [encoded |-> <<codepoint % 256, (codepoint % 65536) \div 256>>,
                  codepoint |-> codepoint, bytes |-> 2]
            ELSE IF codepoint >= 65536 /\ codepoint <= 1114111
            THEN LET v == codepoint - 65536 IN
                 [encoded |-> <<v % 256,
                                OrByte(220, (v \div 256) % 4),
                                ((((v \div 1024) % 256) * 1024) \div 262144) % 256,
                                OrByte(216, (((v \div 262144) % 4) * 262144) \div 1048576)>>,
                  codepoint |-> v, bytes |-> 4]
            ELSE [encoded |-> << >>, codepoint |-> codepoint, bytes |-> 0]
      [] OTHER -> [encoded |-> << >>, codepoint |-> codepoint, bytes |-> 0]


(***************************************************************************)
(* The working buffer.  context.nodes lists the hoxml_node_t frames that   *)
(* live in the buffer, root first; a frame is its address, its parent and   *)
(* end pointers, its flags and the bytes stored from &node->tag to end.     *)
(* Every byte of the buffer outside a frame is zero: hoxml_init and         *)
(* hoxml_realloc zero the buffer and every shrink of a frame zeroes what it *)
(* gives up.                                                                *)
(***************************************************************************)
Drop(str, k) == SubSeq(str, k + 1, Len(str))

HOXML_STACK(context) == context.nodes[Len(context.nodes)]

SetStack(context, node) ==
    [context EXCEPT !.nodes[Len(context.nodes)] = node]

\* The byte stored at an address of the buffer
ByteAt(context, addr) ==
    IF \E i \in 1..Len(context.nodes) :
            context.nodes[i].addr <= addr /\ addr <= context.nodes[i].end
    THEN LET i == CHOOSE j \in 1..Len(context.nodes) :
                    context.nodes[j].addr <= addr /\ addr <= context.nodes[j].end
             n == context.nodes[i]
             k == addr - n.addr
         IN  IF k < 8 THEN LEByte(n.parent, k)
             ELSE IF k < 16 THEN LEByte(n.end, k - 8)
             ELSE IF k < OffsetofTag THEN LEByte(n.flags, k - 16)
             ELSE n.data[k - OffsetofTag + 1]
    ELSE 0

\* The bytes from an address to the end of the used part of the buffer; what
\* follows them is zero (see At)
BytesFrom(context, addr) ==
    IF addr = NULL \/ context.stack = NULL THEN << >>
    ELSE LET last == HOXML_STACK(context).end IN
         [i \in 1..(IF last >= addr THEN last - addr + 1 ELSE 0) |->
            ByteAt(context, addr + i - 1)]

\* &(node->tag)
TagOf(node) == node.addr + OffsetofTag

RECURSIVE hoxml_strlen_from(_, _, _)
hoxml_strlen_from(str, encoding, charSigned) ==
    IF hoxml_decode_character(str, 65535, encoding, charSigned).codepoint = 0
    THEN 0
    ELSE 1 + hoxml_strlen_from(Drop(str, 1), encoding, charSigned)

hoxml_strlen(str, encoding, charSigned) ==
    hoxml_strlen_from(str, encoding, charSigned)

RECURSIVE hoxml_strcmp(_, _, _, _, _, _)
hoxml_strcmp(str1, encoding1, str2, encoding2, sensitivity, charSigned) ==
    Let(hoxml_decode_character(str1, 65535, encoding1, charSigned), LAMBDA c1 :
    Let(hoxml_decode_character(str2, 65535, encoding2, charSigned), LAMBDA c2 :
        IF c1.codepoint # 0 /\ c2.codepoint # 0
        THEN IF \/ (sensitivity = HOXML_CASE_INSENSITIVE /\
                        HOXML_TO_LOWER(c1.codepoint) # HOXML_TO_LOWER(c2.codepoint))
                \/ (sensitivity = HOXML_CASE_SENSITIVE /\ c1.codepoint # c2.codepoint)
             THEN FALSE
             ELSE hoxml_strcmp(Drop(str1, c1.bytes), encoding1,
                               Drop(str2, c2.bytes), encoding2, sensitivity, charSigned)
        ELSE c2.codepoint = 0))

\* The offset in haystack at which needle first appears, or -1 for NULL
RECURSIVE hoxml_strstr_from(_, _, _, _, _, _, _)
hoxml_strstr_from(haystack, off, haystack_encoding, needle, needle_encoding,
                  sensitivity, charSigned) ==
    Let(hoxml_decode_character(Drop(haystack, off), 65535, haystack_encoding,
                               charSigned), LAMBDA c_haystack :
    Let(hoxml_decode_character(needle, 65535, needle_encoding, charSigned),
        LAMBDA c_needle :
        IF c_haystack.codepoint = 0 THEN -1
        ELSE IF c_haystack.codepoint = c_needle.codepoint /\
                hoxml_strcmp(Drop(haystack, off), haystack_encoding, needle,
                             needle_encoding, sensitivity, charSigned)
        THEN off
        ELSE hoxml_strstr_from(haystack, off + c_haystack.bytes, haystack_encoding,
                               needle, needle_encoding, sensitivity, charSigned)))

hoxml_strstr(haystack, haystack_encoding, needle, needle_encoding, sensitivity,
             charSigned) ==
    hoxml_strstr_from(haystack, 0, haystack_encoding, needle, needle_encoding,
                      sensitivity, charSigned)

\* The ASCII string of a reference: the low byte of each decoded character, at
\* most sizeof(ascii) = 16 of them
RECURSIVE hoxml_to_ascii_from(_, _, _, _)
hoxml_to_ascii_from(str, encoding, charSigned, room) ==
    Let(hoxml_decode_character(str, 65535, encoding, charSigned), LAMBDA c :
        IF c.codepoint = 0 \/ room = 0 THEN << >>
        ELSE <<c.codepoint % 256>> \o
             hoxml_to_ascii_from(Drop(str, c.bytes), encoding, charSigned, room - 1))

hoxml_to_ascii(str, encoding, charSigned) ==
    hoxml_to_ascii_from(str, encoding, charSigned, 16)

\* strtoul(ascii, NULL, base) on a string of digits: the value of its longest
\* prefix of digits of the base, 0 when there is none
DigitValue(ch) ==
    IF ch >= Ch.d0 /\ ch <= Ch.d9 THEN ch - Ch.d0
    ELSE IF ch >= Ch.a /\ ch <= Ch.f THEN ch - Ch.a + 10
    ELSE IF ch >= Ch.A /\ ch <= Ch.F THEN ch - Ch.A + 10
    ELSE 99

RECURSIVE strtoul_from(_, _, _)
strtoul_from(ascii, base, acc) ==
    IF ascii = << >> \/ DigitValue(ascii[1]) >= base THEN acc
    ELSE strtoul_from(Tail(ascii), base, acc * base + DigitValue(ascii[1]))

strtoul(ascii, base) == strtoul_from(ascii, base, 0)

(***************************************************************************)
(* Stack and buffer primitives                                             *)
(***************************************************************************)
InsufficientMemory(context) ==
    [context EXCEPT !.error_return_state = context.state,
                    !.state = HOXML_STATE_ERROR_INSUFFICIENT_MEMORY]

\* Undefined behaviour: ub is set and fault says what was done.  Nothing that
\* the context holds afterwards means anything.
Undefined(context, what) == [context EXCEPT !.ub = TRUE, !.fault = what]

\* HOXML_STACK->... while context->stack is NULL
NullStackAccess(context) == Undefined(context, "stack")

\* A string function handed a NULL char*
NullStringAccess(context) == Undefined(context, "string")

\* memcpy with a size_t size that wrapped around below zero
MemcpyOverrun(context) == Undefined(context, "memcpy")

hoxml_push_stack(context) ==
    IF \/ (context.stack = NULL /\ SizeofNode >= context.buffer_length)
       \/ (context.stack # NULL /\
            HOXML_STACK(context).end + 1 + SizeofNode >=
                context.buffer + context.buffer_length)
    THEN InsufficientMemory(context)
    ELSE LET addr == IF context.stack = NULL THEN context.buffer
                     ELSE HOXML_STACK(context).end + 1
             node == [addr |-> addr, parent |-> context.stack,
                      end |-> addr + OffsetofTag - 1, flags |-> 0, data |-> << >>]
         IN  [context EXCEPT !.nodes = Append(context.nodes, node),
                             !.stack = addr]

hoxml_pop_stack(context) ==
    IF context.stack = NULL THEN context
    ELSE [context EXCEPT !.stack = HOXML_STACK(context).parent,
                         !.tag = NULL, !.attribute = NULL,
                         !.value = NULL, !.content = NULL,
                         !.nodes = SubSeq(context.nodes, 1, Len(context.nodes) - 1)]

hoxml_append_character(context, c) ==
    IF context.stack = NULL THEN NullStackAccess(context)
    ELSE LET node == HOXML_STACK(context)
             cleared == [node EXCEPT !.flags = ClearFlag(node.flags, HOXML_FLAG_TERMINATED)]
         IN  IF node.end + c.bytes >= context.buffer + context.buffer_length
             THEN InsufficientMemory(SetStack(context, cleared))
             ELSE SetStack(context, [cleared EXCEPT !.data = node.data \o c.encoded,
                                                    !.end = node.end + c.bytes])

hoxml_append_terminator(context) ==
    IF context.stack = NULL THEN NullStackAccess(context)
    ELSE LET node == HOXML_STACK(context)
             marked == [node EXCEPT !.flags = SetFlag(node.flags, HOXML_FLAG_TERMINATED)]
             bytes == IF context.encoding >= HOXML_ENC_UTF_16_BE THEN 2 ELSE 1
         IN  IF HasFlag(node.flags, HOXML_FLAG_TERMINATED) THEN context
             ELSE IF node.end + bytes >= context.buffer + context.buffer_length
             THEN InsufficientMemory(SetStack(context, marked))
             ELSE SetStack(context, [marked EXCEPT !.data = node.data \o [i \in 1..bytes |-> 0],
                                                   !.end = node.end + bytes])


\* The head frame cut back so that newEnd is its last byte
TruncateStack(context, newEnd) ==
    LET node == HOXML_STACK(context) IN
    SetStack(context, [node EXCEPT !.data = SubSeq(node.data, 1, newEnd - TagOf(node) + 1),
                                   !.end = newEnd])

SetStackFlag(context, flag) ==
    LET node == HOXML_STACK(context) IN
    SetStack(context, [node EXCEPT !.flags = SetFlag(node.flags, flag)])

ClearStackFlag(context, flag) ==
    LET node == HOXML_STACK(context) IN
    SetStack(context, [node EXCEPT !.flags = ClearFlag(node.flags, flag)])

\* String literals of the source
Lit == [xml |-> <<120, 109, 108>>,
        lt |-> <<108, 116>>, gt |-> <<103, 116>>, amp |-> <<97, 109, 112>>,
        apos |-> <<97, 112, 111, 115>>, quot |-> <<113, 117, 111, 116>>,
        encoding |-> <<101, 110, 99, 111, 100, 105, 110, 103, 61>>,
        dq |-> <<34>>, sq |-> <<39>>,
        dqUtf8 |-> <<34, 85, 84, 70, 45, 56, 34>>,
        sqUtf8 |-> <<39, 85, 84, 70, 45, 56, 39>>,
        dqUtf16 |-> <<34, 85, 84, 70, 45, 49, 54, 34>>,
        sqUtf16 |-> <<39, 85, 84, 70, 45, 49, 54, 39>>]

(***************************************************************************)
(* hoxml_end_reference, hoxml_begin_tag, hoxml_end_tag,                    *)
(* hoxml_post_state_cleanup                                                *)
(***************************************************************************)
\* The entity names hoxml_end_reference compares against, in its order, and
\* the characters they stand for
Entities == <<[name |-> Lit.lt, character |-> Ch.lt],
              [name |-> Lit.gt, character |-> Ch.gt],
              [name |-> Lit.amp, character |-> Ch.amp],
              [name |-> Lit.apos, character |-> Ch.sq],
              [name |-> Lit.quot, character |-> Ch.dq]>>

\* The first entity of the if-else chain whose hoxml_strcmp() is non-zero, 0
\* when the chain ends in its else
EntityOf(ref, encoding, charSigned) ==
    Let({i \in DOMAIN Entities :
            hoxml_strcmp(ref, encoding, Entities[i].name, HOXML_ENC_UNKNOWN,
                         HOXML_CASE_SENSITIVE, charSigned)},
        LAMBDA found : IF found = {} THEN 0
                       ELSE CHOOSE i \in found : \A j \in found : i <= j)

\* strtoul(hoxml_to_ascii(context->reference_start, ...), NULL, base)
ReferenceValue(context, type, charSigned) ==
    strtoul(hoxml_to_ascii(BytesFrom(context, context.reference_start),
                           context.encoding, charSigned),
            IF type = HOXML_REF_TYPE_NUMERIC THEN 10 ELSE 16)

\* The switch of hoxml_end_reference: c, and whether the switch left the
\* state alone
ReferencedCharacter(context, type, charSigned) ==
    IF type = HOXML_REF_TYPE_ENTITY
    THEN Let(EntityOf(BytesFrom(context, context.reference_start), context.encoding,
                      charSigned),
             LAMBDA i :
                IF i = 0 THEN [c |-> NoCharacter, known |-> FALSE]
                ELSE [c |-> hoxml_encode_character(Entities[i].character,
                                                   context.encoding),
                      known |-> TRUE])
    ELSE Let(ReferenceValue(context, type, charSigned),
             LAMBDA value :
                IF value # 0
                THEN [c |-> hoxml_encode_character(value, context.encoding),
                      known |-> TRUE]
                ELSE [c |-> NoCharacter, known |-> FALSE])

\* The rest of hoxml_end_reference, for the outcome of its switch
EndReference(context, switched) ==
    IF switched.c.bytes = 0
    THEN IF switched.known THEN context
         ELSE [context EXCEPT !.state = HOXML_STATE_ERROR_SYNTAX]
    ELSE Let(hoxml_append_character(
                [TruncateStack(context, context.reference_start - 1)
                    EXCEPT !.reference_start = NULL],
                switched.c),
             LAMBDA appended :
                [appended EXCEPT !.state = context.return_state,
                                 !.return_state = HOXML_STATE_NONE])

hoxml_end_reference(context, type, charSigned) ==
    EndReference(context, ReferencedCharacter(context, type, charSigned))

hoxml_begin_tag(context) ==
    Let(hoxml_push_stack(context), LAMBDA pushed :
        IF pushed.state >= HOXML_STATE_NONE
        THEN [pushed EXCEPT !.return_state = pushed.state,
                            !.state = HOXML_STATE_TAG_BEGIN]
        ELSE pushed)

\* The result of a function that returns a code: the context it leaves, and
\* the code
Ret(context, code) == [context |-> context, returned |-> TRUE, code |-> code]
Go(context) == [context |-> context, returned |-> FALSE, code |-> 0]

hoxml_end_tag(context, charSigned) ==
    IF context.stack = NULL THEN Ret(NullStackAccess(context), HOXML_ERROR_INTERNAL)
    ELSE
    LET c0 == [context EXCEPT !.state = HOXML_STATE_OPEN_TAG,
                              !.post_state = HOXML_POST_STATE_TAG_END]
        node == HOXML_STACK(c0)
        parentTag == node.parent + OffsetofTag
    IN  IF HasFlag(node.flags, HOXML_FLAG_END_TAG)
        THEN IF \/ node.parent = NULL
                \/ ~hoxml_strcmp(BytesFrom(c0, TagOf(node)), c0.encoding,
                                 BytesFrom(c0, parentTag), c0.encoding,
                                 HOXML_CASE_SENSITIVE, charSigned)
             THEN Ret([c0 EXCEPT !.state = HOXML_STATE_ERROR_TAG_MISMATCH],
                      HOXML_ERROR_TAG_MISMATCH)
             ELSE LET popped == hoxml_pop_stack(c0)
                      len == hoxml_strlen(BytesFrom(popped, parentTag), popped.encoding,
                                          charSigned)
                      c1 == [popped EXCEPT
                                !.tag = parentTag,
                                !.content = parentTag + len +
                                    (IF popped.encoding >= HOXML_ENC_UTF_16_BE THEN 2 ELSE 1)]
                  IN  Ret(SetStackFlag(c1, HOXML_FLAG_DECREMENT_DEPTH), HOXML_ELEMENT_END)
        ELSE IF HasFlag(node.flags, HOXML_FLAG_EMPTY_ELEMENT)
        THEN Ret(c0, HOXML_ELEMENT_END)
        ELSE IF HasFlag(node.flags, HOXML_FLAG_PROCESSING_INSTRUCTION)
        THEN Ret(c0, HOXML_PROCESSING_INSTRUCTION_END)
        ELSE Ret(SetStackFlag([c0 EXCEPT !.post_state = HOXML_STATE_NONE],
                              HOXML_FLAG_INCREMENT_DEPTH),
                 HOXML_ELEMENT_BEGIN)

\* returned is the function's int result: TRUE when hoxml_parse() should return
\* HOXML_END_OF_DOCUMENT
hoxml_post_state_cleanup(context, charSigned) ==
    IF context.post_state = HOXML_STATE_NONE THEN Go(context)
    ELSE IF context.post_state = HOXML_POST_STATE_TAG_END
    THEN IF context.stack = NULL THEN Go(NullStackAccess(context))
         ELSE Let(HasFlag(HOXML_STACK(context).flags,
                          HOXML_FLAG_PROCESSING_INSTRUCTION) /\
                  hoxml_strcmp(BytesFrom(context, TagOf(HOXML_STACK(context))),
                               context.encoding, Lit.xml, HOXML_ENC_UNKNOWN,
                               HOXML_CASE_INSENSITIVE, charSigned),
              LAMBDA was_document_or_document_type_declaration :
              Let(hoxml_pop_stack(IF was_document_or_document_type_declaration
                                  THEN [context EXCEPT !.state = HOXML_STATE_NONE]
                                  ELSE context),
              LAMBDA popped :
                  IF popped.stack = NULL /\ ~was_document_or_document_type_declaration
                  THEN Ret(popped, 1)
                  ELSE Go([popped EXCEPT !.post_state = HOXML_STATE_NONE])))
    ELSE IF context.post_state = HOXML_POST_STATE_ATTRIBUTE_END
    THEN IF context.stack = NULL \/ context.attribute = NULL
         THEN Go(NullStackAccess(context))
         ELSE Go([TruncateStack(context, context.attribute - 1)
                    EXCEPT !.attribute = NULL, !.value = NULL,
                           !.post_state = HOXML_STATE_NONE])
    ELSE Go([context EXCEPT !.post_state = HOXML_STATE_NONE])


(***************************************************************************)
(* hoxml_parse: the switch on the state, for one decoded character c       *)
(***************************************************************************)
Syntax(context) == [context EXCEPT !.state = HOXML_STATE_ERROR_SYNTAX]
To(context, state) == [context EXCEPT !.state = state]
Ok(context) == context.state >= HOXML_STATE_NONE /\ ~context.ub

\* hoxml_append_terminator() or hoxml_append_character() followed by
\* "if (context->state >= HOXML_STATE_NONE)": Then is the body of the if
IfAppended(appended, Then(_)) == IF Ok(appended) THEN Then(appended) ELSE Go(appended)
IfTerminated(context, Then(_)) == IfAppended(hoxml_append_terminator(context), Then)
IfCharacter(context, c, Then(_)) == IfAppended(hoxml_append_character(context, c), Then)

\* "look for one letter": the CDATA_BEGIN and DTD_BEGIN states
Expect(context, c, letter, next) ==
    IF c.codepoint = letter THEN Go(To(context, next)) ELSE Go(Syntax(context))

CaseNone(context, c) ==
    IF c.codepoint = Ch.lt THEN Go(hoxml_begin_tag(context))
    ELSE IF EncodedValue(c) = 239
    THEN Go([context EXCEPT !.state = HOXML_STATE_UTF8_BOM1, !.column = context.column - 1])
    ELSE IF EncodedValue(c) = 254
    THEN Go([context EXCEPT !.state = HOXML_STATE_UTF16BE_BOM, !.column = context.column - 1])
    ELSE IF EncodedValue(c) = 255
    THEN Go([context EXCEPT !.state = HOXML_STATE_UTF16LE_BOM, !.column = context.column - 1])
    ELSE IF ~HOXML_IS_WHITESPACE(c.codepoint) THEN Go(Syntax(context))
    ELSE Go(context)

CaseBom(context, c, byte, next, encoding) ==
    LET c0 == [context EXCEPT !.column = context.column - 1] IN
    IF EncodedValue(c) = byte
    THEN Go([c0 EXCEPT !.state = next,
                       !.encoding = IF next = HOXML_STATE_NONE THEN encoding
                                    ELSE c0.encoding])
    ELSE Go(Syntax(c0))

CaseTagBegin(context, c) ==
    IF c.codepoint = Ch.qm
    THEN Go(SetStackFlag(To(context, HOXML_STATE_PROCESSING_INSTRUCTION_BEGIN),
                         HOXML_FLAG_PROCESSING_INSTRUCTION))
    ELSE IF c.codepoint = Ch.slash THEN Go(SetStackFlag(context, HOXML_FLAG_END_TAG))
    ELSE IF c.codepoint = Ch.bang
    THEN Go(To(context, HOXML_STATE_COMMENT_CDATA_OR_DTD_BEGIN))
    ELSE IF HOXML_IS_NAME_START_CHAR(c.codepoint)
    THEN IfCharacter(context, c, LAMBDA a :
            Go([a EXCEPT !.state = HOXML_STATE_ELEMENT_NAME1,
                         !.tag = TagOf(HOXML_STACK(a))]))
    ELSE Go(Syntax(context))

CaseElementName1(context, c, charSigned) ==
    IF c.codepoint = Ch.gt
    THEN IfTerminated(context, LAMBDA t : hoxml_end_tag(t, charSigned))
    ELSE IF c.codepoint = Ch.slash
    THEN IF HasFlag(HOXML_STACK(context).flags, HOXML_FLAG_END_TAG)
         THEN Go(Syntax(context))
         ELSE IfTerminated(context, LAMBDA t :
                Ret(SetStackFlag(t, HOXML_FLAG_EMPTY_ELEMENT), HOXML_ELEMENT_BEGIN))
    ELSE IF HOXML_IS_WHITESPACE(c.codepoint)
    THEN IfTerminated(context, LAMBDA t :
            Ret(SetStackFlag(To(t, HOXML_STATE_ELEMENT_NAME2), HOXML_FLAG_BEGUN),
                HOXML_ELEMENT_BEGIN))
    ELSE IF HOXML_IS_NAME_CHAR(c.codepoint) THEN Go(hoxml_append_character(context, c))
    ELSE Go(Syntax(context))

CaseElementName2(context, c, charSigned) ==
    IF c.codepoint = Ch.gt
    THEN IfTerminated(context, LAMBDA t :
            Let(hoxml_end_tag(t, charSigned), LAMBDA ended :
                IF HasFlag(HOXML_STACK(t).flags, HOXML_FLAG_BEGUN) /\
                   ~HasFlag(HOXML_STACK(t).flags, HOXML_FLAG_EMPTY_ELEMENT)
                THEN Go(hoxml_post_state_cleanup(ended.context, charSigned).context)
                ELSE ended))
    ELSE IF c.codepoint = Ch.slash
    THEN IF HasFlag(HOXML_STACK(context).flags, HOXML_FLAG_END_TAG)
         THEN Go(Syntax(context))
         ELSE Go(SetStackFlag(context, HOXML_FLAG_EMPTY_ELEMENT))
    ELSE IF HOXML_IS_NAME_START_CHAR(c.codepoint)
    THEN IfCharacter(context, c, LAMBDA a :
            Go([a EXCEPT !.state = HOXML_STATE_ATTRIBUTE_NAME1,
                         !.attribute = HOXML_STACK(a).end]))
    ELSE IF ~HOXML_IS_WHITESPACE(c.codepoint) THEN Go(Syntax(context))
    ELSE Go(context)

CaseAttributeName1(context, c) ==
    IF c.codepoint = Ch.eq
    THEN IfTerminated(context, LAMBDA t : Go(To(t, HOXML_STATE_ATTRIBUTE_ASSIGNMENT)))
    ELSE IF HOXML_IS_NAME_CHAR(c.codepoint) THEN Go(hoxml_append_character(context, c))
    ELSE IF HOXML_IS_WHITESPACE(c.codepoint)
    THEN IfTerminated(context, LAMBDA t : Go(To(t, HOXML_STATE_ATTRIBUTE_NAME2)))
    ELSE Go(Syntax(context))

CaseAttributeName2(context, c) ==
    IF c.codepoint = Ch.eq THEN Go(To(context, HOXML_STATE_ATTRIBUTE_ASSIGNMENT))
    ELSE IF ~HOXML_IS_WHITESPACE(c.codepoint) THEN Go(Syntax(context))
    ELSE Go(context)

CaseAttributeAssignment(context, c) ==
    IF c.codepoint = Ch.dq \/ c.codepoint = Ch.sq
    THEN Let(IF c.codepoint = Ch.dq
             THEN SetStackFlag(context, HOXML_FLAG_DOUBLE_QUOTE)
             ELSE ClearStackFlag(context, HOXML_FLAG_DOUBLE_QUOTE),
             LAMBDA q : Go([q EXCEPT !.state = HOXML_STATE_ATTRIBUTE_VALUE,
                                     !.value = HOXML_STACK(q).end + 1]))
    ELSE IF ~HOXML_IS_WHITESPACE(c.codepoint) THEN Go(Syntax(context))
    ELSE Go(context)

CaseAttributeValue(context, c) ==
    LET flags == HOXML_STACK(context).flags IN
    IF \/ (HasFlag(flags, HOXML_FLAG_DOUBLE_QUOTE) /\ c.codepoint = Ch.dq)
       \/ (~HasFlag(flags, HOXML_FLAG_DOUBLE_QUOTE) /\ c.codepoint = Ch.sq)
    THEN IfTerminated(context, LAMBDA t :
            Ret([t EXCEPT !.state = HOXML_STATE_ELEMENT_NAME2,
                          !.post_state = HOXML_POST_STATE_ATTRIBUTE_END],
                HOXML_ATTRIBUTE))
    ELSE IF c.codepoint = Ch.amp
    THEN Go([context EXCEPT !.state = HOXML_STATE_REFERENCE_BEGIN,
                            !.return_state = HOXML_STATE_ATTRIBUTE_VALUE])
    ELSE IF HOXML_IS_VALUE_CHAR_DATA(flags, c.codepoint)
    THEN Go(hoxml_append_character(context, c))
    ELSE Go(Syntax(context))

CaseOpenTag(context, c) ==
    IF c.codepoint = Ch.lt THEN Go(hoxml_begin_tag(context))
    ELSE IF c.codepoint = Ch.amp
    THEN Go([context EXCEPT !.state = HOXML_STATE_REFERENCE_BEGIN,
                            !.return_state = HOXML_STATE_OPEN_TAG])
    ELSE IF HOXML_IS_CHAR_DATA(c.codepoint) THEN Go(hoxml_append_character(context, c))
    ELSE Go(Syntax(context))

CaseCommentCdataOrDtdBegin(context, c) ==
    IF c.codepoint = Ch.dash THEN Go(To(context, HOXML_STATE_COMMENT_BEGIN))
    ELSE IF c.codepoint = Ch.lbr THEN Go(To(context, HOXML_STATE_CDATA_BEGIN1))
    ELSE IF c.codepoint = Ch.D
    THEN IF context.return_state # HOXML_STATE_NONE
         THEN Ret(To(context, HOXML_STATE_ERROR_INVALID_DOCUMENT_TYPE_DECLARATION),
                  HOXML_ERROR_INVALID_DOCUMENT_TYPE_DECLARATION)
         ELSE Go(To(context, HOXML_STATE_DTD_BEGIN1))
    ELSE Go(Syntax(context))

CaseComment(context, c) ==
    CASE context.state = HOXML_STATE_COMMENT_BEGIN ->
            Expect(hoxml_pop_stack(context), c, Ch.dash, HOXML_STATE_COMMENT)
      [] context.state = HOXML_STATE_COMMENT ->
            Go(To(context, IF c.codepoint = Ch.dash THEN HOXML_STATE_COMMENT_END1
                           ELSE HOXML_STATE_COMMENT))
      [] context.state = HOXML_STATE_COMMENT_END1 ->
            Go(To(context, IF c.codepoint = Ch.dash THEN HOXML_STATE_COMMENT_END2
                           ELSE HOXML_STATE_COMMENT))
      [] OTHER ->
            IF c.codepoint = Ch.gt THEN Go(To(context, context.return_state))
            ELSE Go(Syntax(context))

CaseCdata(context, c) ==
    CASE context.state = HOXML_STATE_CDATA_BEGIN1 ->
            Expect(hoxml_pop_stack(context), c, Ch.C, HOXML_STATE_CDATA_BEGIN2)
      [] context.state = HOXML_STATE_CDATA_BEGIN2 ->
            Expect(context, c, Ch.D, HOXML_STATE_CDATA_BEGIN3)
      [] context.state = HOXML_STATE_CDATA_BEGIN3 ->
            Expect(context, c, Ch.A, HOXML_STATE_CDATA_BEGIN4)
      [] context.state = HOXML_STATE_CDATA_BEGIN4 ->
            Expect(context, c, Ch.T, HOXML_STATE_CDATA_BEGIN5)
      [] context.state = HOXML_STATE_CDATA_BEGIN5 ->
            Expect(context, c, Ch.A, HOXML_STATE_CDATA_BEGIN6)
      [] context.state = HOXML_STATE_CDATA_BEGIN6 ->
            Expect(context, c, Ch.lbr, HOXML_STATE_CDATA_CONTENT)
      [] context.state = HOXML_STATE_CDATA_CONTENT ->
            IfCharacter(context, c, LAMBDA a :
                IF c.codepoint = Ch.rbr THEN Go(To(a, HOXML_STATE_CDATA_END1))
                ELSE Go(a))
      [] context.state = HOXML_STATE_CDATA_END1 ->
            IfCharacter(context, c, LAMBDA a :
                Go(To(a, IF c.codepoint = Ch.rbr THEN HOXML_STATE_CDATA_END2
                         ELSE HOXML_STATE_CDATA_CONTENT)))
      [] OTHER ->
            IF c.codepoint = Ch.gt
            THEN IF context.stack = NULL THEN Go(NullStackAccess(context))
                 ELSE LET bytes == IF context.encoding >= HOXML_ENC_UTF_16_BE THEN 4 ELSE 2 IN
                      Go(TruncateStack(To(context, HOXML_STATE_OPEN_TAG),
                                       HOXML_STACK(context).end - bytes))
            ELSE IfCharacter(context, c, LAMBDA a : Go(To(a, HOXML_STATE_CDATA_CONTENT)))

CaseReference(context, c, charSigned) ==
    CASE context.state = HOXML_STATE_REFERENCE_BEGIN ->
            Let([context EXCEPT !.reference_start = HOXML_STACK(context).end + 1],
                LAMBDA r :
                    IF c.codepoint = Ch.hash THEN Go(To(r, HOXML_STATE_REFERENCE_NUMERIC))
                    ELSE IF c.codepoint \in {Ch.a, Ch.g, Ch.l, Ch.q}
                    THEN IfCharacter(r, c, LAMBDA a :
                            Go(To(a, HOXML_STATE_REFERENCE_ENTITY)))
                    ELSE Go(Syntax(r)))
      [] context.state = HOXML_STATE_REFERENCE_ENTITY ->
            IF c.codepoint = Ch.semi
            THEN Go(hoxml_end_reference(context, HOXML_REF_TYPE_ENTITY, charSigned))
            ELSE IF HOXML_IS_ASCII_CHAR(c.codepoint)
            THEN Go(hoxml_append_character(context, c))
            ELSE Go(Syntax(context))
      [] context.state = HOXML_STATE_REFERENCE_NUMERIC ->
            IF c.codepoint = Ch.x THEN Go(To(context, HOXML_STATE_REFERENCE_HEX))
            ELSE IF c.codepoint = Ch.semi
            THEN Go(hoxml_end_reference(context, HOXML_REF_TYPE_NUMERIC, charSigned))
            ELSE IF HOXML_IS_NUMERIC(c.codepoint)
            THEN Go(hoxml_append_character(context, c))
            ELSE Go(Syntax(context))
      [] OTHER ->
            IF c.codepoint = Ch.semi
            THEN Go(hoxml_end_reference(context, HOXML_REF_TYPE_HEX, charSigned))
            ELSE IF HOXML_IS_HEX_CHAR(c.codepoint)
            THEN Go(hoxml_append_character(context, c))
            ELSE Go(Syntax(context))


\* The first double quotation mark of a string or, when it has none, its first
\* single one: the offset, -1 when it has neither
FirstQuote(str, encoding, charSigned) ==
    Let([lit \in {Lit.dq, Lit.sq} |->
            hoxml_strstr(str, encoding, lit, HOXML_ENC_UNKNOWN, HOXML_CASE_SENSITIVE,
                         charSigned)],
        LAMBDA quote : IF quote[Lit.dq] # -1 THEN quote[Lit.dq] ELSE quote[Lit.sq])

\* The string from the first quotation mark that follows "encoding=" in the
\* content of the declaration, as <<string>>; << >> when there is none
EncodingValue(content, encoding, charSigned) ==
    Let(hoxml_strstr(content, encoding, Lit.encoding, HOXML_ENC_UNKNOWN,
                     HOXML_CASE_SENSITIVE, charSigned),
        LAMBDA declaration :
        IF declaration = -1 THEN << >>
        ELSE Let(FirstQuote(Drop(content, declaration), encoding, charSigned),
                 LAMBDA quote :
                    IF quote = -1 THEN << >>
                    ELSE <<Drop(content, declaration + quote)>>))

\* hoxml_strcmp(encoding, ..., "\"UTF-8\"", ...) || hoxml_strcmp(encoding, ...,
\* "'UTF-8'", ...), for the two spellings of a name
DeclaresOneOf(enc, encoding, spellings, charSigned) ==
    \E lit \in spellings :
        hoxml_strcmp(enc, encoding, lit, HOXML_ENC_UNKNOWN, HOXML_CASE_INSENSITIVE,
                     charSigned)

\* The check of the encoding declaration made when '?' ends the content of a
\* processing instruction.  hay is the string at context->content.
CaseEncodingDeclaration(context, charSigned) ==
    Let(EncodingValue(BytesFrom(context, context.content), context.encoding,
                      charSigned),
        LAMBDA enc :
        IF enc = << >> THEN Go(context)
        ELSE
        Let(DeclaresOneOf(enc[1], context.encoding, {Lit.dqUtf8, Lit.sqUtf8},
                          charSigned), LAMBDA utf8 :
        Let(DeclaresOneOf(enc[1], context.encoding, {Lit.dqUtf16, Lit.sqUtf16},
                          charSigned), LAMBDA utf16 :
            CASE context.encoding = HOXML_ENC_UNKNOWN ->
                    IF utf8
                    THEN Go([context EXCEPT !.encoding = HOXML_ENC_UTF_8])
                    ELSE IF utf16
                    THEN Ret(To(context, HOXML_STATE_ERROR_ENCODING), HOXML_ERROR_ENCODING)
                    ELSE Go(context)
              [] context.encoding = HOXML_ENC_UTF_8 ->
                    IF ~utf8
                    THEN Ret(To(context, HOXML_STATE_ERROR_ENCODING), HOXML_ERROR_ENCODING)
                    ELSE Go(context)
              [] context.encoding \in {HOXML_ENC_UTF_16_LE, HOXML_ENC_UTF_16_BE} ->
                    IF ~utf16
                    THEN Ret(context, HOXML_ERROR_ENCODING)
                    ELSE Go(context)
              [] OTHER -> Go(context))))

CaseProcessingInstruction(context, c, charSigned) ==
    CASE context.state = HOXML_STATE_PROCESSING_INSTRUCTION_BEGIN ->
            IF HOXML_IS_NAME_START_CHAR(c.codepoint)
            THEN IfCharacter(context, c, LAMBDA a :
                    Go([a EXCEPT !.state = HOXML_STATE_PROCESSING_INSTRUCTION_TARGET1,
                                 !.tag = TagOf(HOXML_STACK(a))]))
            ELSE Go(Syntax(context))
      [] context.state = HOXML_STATE_PROCESSING_INSTRUCTION_TARGET1 ->
            IF context.stack = NULL THEN Go(NullStackAccess(context))
            ELSE IF HOXML_IS_WHITESPACE(c.codepoint)
            THEN IF hoxml_strcmp(BytesFrom(context, TagOf(HOXML_STACK(context))),
                                 context.encoding, Lit.xml, HOXML_ENC_UNKNOWN,
                                 HOXML_CASE_INSENSITIVE, charSigned)
                    /\ HOXML_STACK(context).parent # NULL
                 THEN Ret(To(context, HOXML_STATE_ERROR_INVALID_DOCUMENT_DECLARATION),
                          HOXML_ERROR_INVALID_DOCUMENT_DECLARATION)
                 ELSE IfTerminated(context, LAMBDA t :
                        Ret(To(t, HOXML_STATE_PROCESSING_INSTRUCTION_CONTENT),
                            HOXML_PROCESSING_INSTRUCTION_BEGIN))
            ELSE IF c.codepoint = Ch.qm
            THEN IfTerminated(context, LAMBDA t :
                    Go(To(t, HOXML_STATE_PROCESSING_INSTRUCTION_END)))
            ELSE IF HOXML_IS_NAME_CHAR(c.codepoint) THEN Go(hoxml_append_character(context, c))
            ELSE Go(Syntax(context))
      [] context.state = HOXML_STATE_PROCESSING_INSTRUCTION_CONTENT ->
            IF c.codepoint = Ch.qm
            THEN IF context.content = NULL
                 THEN Go(NullStringAccess(context))   \* hoxml_strstr() reads *NULL
                 ELSE IF context.stack = NULL THEN Go(NullStackAccess(context))
                 ELSE Let(CaseEncodingDeclaration(context, charSigned), LAMBDA d :
                        IF d.returned THEN d
                        ELSE IfTerminated(d.context, LAMBDA t :
                                Go(To(t, HOXML_STATE_PROCESSING_INSTRUCTION_END))))
            ELSE IF context.stack = NULL THEN Go(NullStackAccess(context))
            ELSE Go(hoxml_append_character(
                        IF context.content = NULL
                        THEN [context EXCEPT !.content = HOXML_STACK(context).end + 1]
                        ELSE context, c))
      [] context.state = HOXML_STATE_PROCESSING_INSTRUCTION_END ->
            IF c.codepoint = Ch.gt THEN hoxml_end_tag(context, charSigned)
            ELSE Go(Syntax(context))
      [] OTHER -> Go(context)   \* HOXML_STATE_PROCESSING_INSTRUCTION_TARGET2 has no case

CaseDtd(context, c) ==
    CASE context.state = HOXML_STATE_DTD_BEGIN1 ->
            Expect(hoxml_pop_stack(context), c, Ch.O, HOXML_STATE_DTD_BEGIN2)
      [] context.state = HOXML_STATE_DTD_BEGIN2 -> Expect(context, c, Ch.C, HOXML_STATE_DTD_BEGIN3)
      [] context.state = HOXML_STATE_DTD_BEGIN3 -> Expect(context, c, Ch.T, HOXML_STATE_DTD_BEGIN4)
      [] context.state = HOXML_STATE_DTD_BEGIN4 -> Expect(context, c, Ch.Y, HOXML_STATE_DTD_BEGIN5)
      [] context.state = HOXML_STATE_DTD_BEGIN5 -> Expect(context, c, Ch.P, HOXML_STATE_DTD_BEGIN6)
      [] context.state = HOXML_STATE_DTD_BEGIN6 -> Expect(context, c, Ch.E, HOXML_STATE_DTD_BEGIN7)
      [] context.state = HOXML_STATE_DTD_BEGIN7 ->
            IF HOXML_IS_WHITESPACE(c.codepoint) THEN Go(To(context, HOXML_STATE_DTD_BEGIN8))
            ELSE Go(Syntax(context))
      [] context.state = HOXML_STATE_DTD_BEGIN8 ->
            IF HOXML_IS_NAME_START_CHAR(c.codepoint) THEN Go(To(context, HOXML_STATE_DTD_NAME))
            ELSE IF ~HOXML_IS_WHITESPACE(c.codepoint) THEN Go(Syntax(context))
            ELSE Go(context)
      [] context.state = HOXML_STATE_DTD_NAME ->
            IF HOXML_IS_WHITESPACE(c.codepoint) THEN Go(To(context, HOXML_STATE_DTD_CONTENT))
            ELSE IF ~HOXML_IS_NAME_CHAR(c.codepoint) THEN Go(Syntax(context))
            ELSE Go(context)
      [] context.state = HOXML_STATE_DTD_CONTENT ->
            IF c.codepoint = Ch.lbr THEN Go(To(context, HOXML_STATE_DTD_OPEN_BRACKET))
            ELSE IF c.codepoint = Ch.gt THEN Go(To(context, HOXML_STATE_NONE))
            ELSE IF ~HOXML_IS_CHAR_DATA(c.codepoint) THEN Go(Syntax(context))
            ELSE Go(context)
      [] OTHER ->
            IF c.codepoint = Ch.rbr THEN Go(To(context, HOXML_STATE_DTD_CONTENT))
            ELSE Go(context)

\* switch(context->state) of the loop
StateSwitch(context, c, charSigned) ==
    LET state == context.state IN
    CASE state = HOXML_STATE_NONE -> CaseNone(context, c)
      [] state = HOXML_STATE_UTF8_BOM1 ->
            CaseBom(context, c, 187, HOXML_STATE_UTF8_BOM2, HOXML_ENC_UTF_8)
      [] state = HOXML_STATE_UTF8_BOM2 ->
            CaseBom(context, c, 191, HOXML_STATE_NONE, HOXML_ENC_UTF_8)
      [] state = HOXML_STATE_UTF16BE_BOM ->
            CaseBom(context, c, 255, HOXML_STATE_NONE, HOXML_ENC_UTF_16_BE)
      [] state = HOXML_STATE_UTF16LE_BOM ->
            CaseBom(context, c, 254, HOXML_STATE_NONE, HOXML_ENC_UTF_16_LE)
      [] state = HOXML_STATE_TAG_BEGIN -> CaseTagBegin(context, c)
      [] state = HOXML_STATE_ELEMENT_NAME1 -> CaseElementName1(context, c, charSigned)
      [] state = HOXML_STATE_ELEMENT_NAME2 -> CaseElementName2(context, c, charSigned)
      [] state = HOXML_STATE_ATTRIBUTE_NAME1 -> CaseAttributeName1(context, c)
      [] state = HOXML_STATE_ATTRIBUTE_NAME2 -> CaseAttributeName2(context, c)
      [] state = HOXML_STATE_ATTRIBUTE_ASSIGNMENT -> CaseAttributeAssignment(context, c)
      [] state = HOXML_STATE_ATTRIBUTE_VALUE -> CaseAttributeValue(context, c)
      [] state = HOXML_STATE_OPEN_TAG -> CaseOpenTag(context, c)
      [] state = HOXML_STATE_COMMENT_CDATA_OR_DTD_BEGIN ->
            CaseCommentCdataOrDtdBegin(context, c)
      [] state >= HOXML_STATE_COMMENT_BEGIN /\ state <= HOXML_STATE_COMMENT_END2 ->
            CaseComment(context, c)
      [] state >= HOXML_STATE_CDATA_BEGIN1 /\ state <= HOXML_STATE_CDATA_END2 ->
            CaseCdata(context, c)
      [] state >= HOXML_STATE_REFERENCE_BEGIN /\ state <= HOXML_STATE_REFERENCE_HEX ->
            CaseReference(context, c, charSigned)
      [] state >= HOXML_STATE_PROCESSING_INSTRUCTION_BEGIN /\
         state <= HOXML_STATE_PROCESSING_INSTRUCTION_END ->
            CaseProcessingInstruction(context, c, charSigned)
      [] state >= HOXML_STATE_DTD_BEGIN1 /\ state <= HOXML_STATE_DTD_OPEN_BRACKET ->
            CaseDtd(context, c)
      [] OTHER -> Go(context)   \* HOXML_STATE_TAG_END and HOXML_STATE_DONE have no case


(***************************************************************************)
(* hoxml_init, hoxml_realloc, hoxml_parse                                  *)
(***************************************************************************)
\* memset(context, 0, sizeof(hoxml_context_t)): a context of zeroes, with no
\* frame in its buffer and nothing undefined done to it
Zeroed ==
    [tag |-> NULL, attribute |-> NULL, value |-> NULL, content |-> NULL,
     line |-> 0, column |-> 0, depth |-> 0, is_initialized |-> 0,
     xml |-> NULL, xml_length |-> 0, encoding |-> HOXML_ENC_UNKNOWN, iterator |-> NULL,
     buffer |-> NULL, buffer_length |-> 0,
     reference_start |-> NULL, stack |-> NULL,
     state |-> HOXML_STATE_NONE, post_state |-> HOXML_STATE_NONE,
     return_state |-> HOXML_STATE_NONE, error_return_state |-> HOXML_STATE_NONE,
     stream |-> <<0, 0, 0, 0>>, stream_length |-> 0, newline_character |-> 0,
     nodes |-> << >>, ub |-> FALSE, fault |-> "none"]

\* A hoxml_context_t that nothing has written yet, as the local variable of
\* ParseDocument is before hoxml_init: what is_initialized reads as is for
\* the build to decide, zero or not.  No other member of such a context is
\* read: hoxml_init leaves it so only when the buffer is empty, and the
\* string handed to hoxml_parse is then empty too.
Uninitialized(is_initialized) == [Zeroed EXCEPT !.is_initialized = is_initialized]

hoxml_init(context, buffer, buffer_length) ==
    IF buffer = NULL \/ buffer_length <= 0 THEN context
    ELSE [Zeroed EXCEPT !.buffer = buffer, !.buffer_length = buffer_length,
                        !.line = 1, !.is_initialized = 1]

\* (char*)buffer + (p - context->buffer)
Rebase(context, buffer, p) == buffer + (p - context.buffer)
RebaseOrNull(context, buffer, p) == IF p = NULL THEN NULL ELSE Rebase(context, buffer, p)

\* A hoxml_realloc that takes the new buffer and leaves every pointer where it
\* was, in the old one
ReallocWithoutRebase(context, buffer, buffer_length) ==
    IF context.is_initialized = 0 \/ buffer = NULL \/ buffer_length <= context.buffer_length
    THEN context
    ELSE [context EXCEPT
            !.buffer = buffer,
            !.buffer_length = buffer_length,
            !.state = IF @ = HOXML_STATE_ERROR_INSUFFICIENT_MEMORY
                      THEN context.error_return_state ELSE @,
            !.error_return_state = IF context.state = HOXML_STATE_ERROR_INSUFFICIENT_MEMORY
                                   THEN HOXML_STATE_NONE ELSE @]

hoxml_realloc(context, buffer, buffer_length) ==
    IF context.is_initialized = 0 \/ buffer = NULL \/ buffer_length <= context.buffer_length
    THEN context
    ELSE [context EXCEPT
            !.nodes = [i \in 1..Len(context.nodes) |->
                        [context.nodes[i] EXCEPT
                            !.addr = Rebase(context, buffer, @),
                            !.end = Rebase(context, buffer, @),
                            !.parent = RebaseOrNull(context, buffer, @)]],
            !.tag = RebaseOrNull(context, buffer, @),
            !.attribute = RebaseOrNull(context, buffer, @),
            !.value = RebaseOrNull(context, buffer, @),
            !.content = RebaseOrNull(context, buffer, @),
            !.reference_start = RebaseOrNull(context, buffer, @),
            !.stack = RebaseOrNull(context, buffer, @),
            !.buffer = buffer,
            !.buffer_length = buffer_length,
            !.state = IF @ = HOXML_STATE_ERROR_INSUFFICIENT_MEMORY
                      THEN context.error_return_state ELSE @,
            !.error_return_state = IF context.state = HOXML_STATE_ERROR_INSUFFICIENT_MEMORY
                                   THEN HOXML_STATE_NONE ELSE @]

\* memcpy((char*)&stream + at, src + from, n): the four bytes of the stream
\* after n bytes of src are copied to offset at
StreamCopy(stream, at, src, from, n) ==
    [i \in 1..4 |-> IF i > at /\ i <= at + n THEN At(src, from + (i - at) - 1)
                    ELSE stream[i]]

\* The context after the line and column bookkeeping for character c
CountCharacter(context, c) ==
    IF HOXML_IS_NEW_LINE(c.codepoint)
    THEN LET newline == IF context.newline_character = 0 THEN c.codepoint
                        ELSE context.newline_character
         IN  [context EXCEPT !.newline_character = newline,
                             !.line = IF c.codepoint = newline THEN @ + 1 ELSE @,
                             !.column = 0]
    ELSE [context EXCEPT !.column = @ + 1]

\* What hoxml_parse hands back, and with it the context as it was when the
\* last character the call read was about to be read (previous_iterator and
\* previous_stream_length are its iterator and stream_length)
Out(r, previous) ==
    [context |-> r.context, returned |-> r.returned, code |-> r.code,
     previous |-> previous]

\* bytes_to_copy of the loop: up to four bytes, less those already in the stream
BytesToCopy(context, bytes_remaining) ==
    IF context.stream_length > 0 THEN Min(4, bytes_remaining) - context.stream_length
    ELSE Min(4, bytes_remaining)

\* What one pass of the while loop hands on: a result of hoxml_parse, or the
\* context for the next pass and the context this pass began with
Leave(out) == [left |-> TRUE, out |-> out]
Again(context, previous) == [left |-> FALSE, context |-> context, previous |-> previous]

\* One pass of the while loop of hoxml_parse, from its condition to the end
\* of its body, and what follows the loop when the condition fails.  mem is
\* the caller's memory at context->xml.
LoopPass(context, mem, previous, charSigned) ==
    IF context.ub THEN Leave(Out(Ret(context, HOXML_ERROR_INTERNAL), previous))
    ELSE IF ~(context.state >= HOXML_STATE_NONE /\ context.state <= HOXML_STATE_DONE)
    THEN IF context.state = HOXML_STATE_ERROR_INSUFFICIENT_MEMORY
         THEN Leave(Out(Ret([context EXCEPT !.iterator = previous.iterator,
                                            !.stream_length = previous.stream_length,
                                            !.column = @ - 1],
                            HOXML_ERROR_INSUFFICIENT_MEMORY), previous))
         ELSE Leave(Out(Ret(context, HOXML_ERROR_SYNTAX), previous))
    ELSE IF /\ \/ (context.state >= HOXML_STATE_TAG_BEGIN /\
                    context.state <= HOXML_STATE_OPEN_TAG)
               \/ (context.state >= HOXML_STATE_REFERENCE_BEGIN /\
                    context.state <= HOXML_STATE_REFERENCE_HEX)
            /\ context.stack = NULL
    THEN Leave(Out(Ret(To(context, HOXML_STATE_ERROR_INTERNAL), HOXML_ERROR_INTERNAL),
                   context))
    ELSE
    Let(context.xml_length - (context.iterator - context.xml), LAMBDA bytes_remaining :
    Let(BytesToCopy(context, bytes_remaining), LAMBDA bytes_to_copy :
        IF bytes_remaining < 0 \/ bytes_to_copy < 0
        THEN Leave(Out(Ret(MemcpyOverrun(context), HOXML_ERROR_INTERNAL), context))
        ELSE
        Let(StreamCopy(context.stream,
                       IF context.stream_length > 0 THEN context.stream_length ELSE 0,
                       mem, context.iterator - context.xml, bytes_to_copy),
            LAMBDA stream :
        Let(hoxml_decode_character(stream, bytes_remaining, context.encoding, charSigned),
            LAMBDA c :
            IF c.codepoint = 0 \/ c.codepoint = UINT32_MAX
            THEN Leave(Out(Ret([context EXCEPT
                                    !.stream = stream,
                                    !.stream_length = bytes_to_copy,
                                    !.error_return_state = context.state,
                                    !.state = HOXML_STATE_ERROR_UNEXPECTED_EOF],
                               HOXML_ERROR_UNEXPECTED_EOF), context))
            ELSE
            Let(StateSwitch(
                    [CountCharacter([context EXCEPT !.stream = stream], c) EXCEPT
                        !.iterator = @ + c.bytes - context.stream_length,
                        !.stream_length = 0],
                    c, charSigned),
                LAMBDA r : IF r.returned THEN Leave(Out(r, context))
                           ELSE Again(r.context, context))))))

\* n passes of the while loop one after the other, or fewer when one of
\* them leaves the loop: the first half of them, then the rest
RECURSIVE Passes(_, _, _, _)
Passes(from, n, mem, charSigned) ==
    IF from.left THEN from
    ELSE IF n = 1 THEN LoopPass(from.context, mem, from.previous, charSigned)
    ELSE Passes(Passes(from, n \div 2, mem, charSigned), n - (n \div 2), mem,
                charSigned)

\* The passes the bytes that are left allow when each pass reads one of them,
\* and the pass that finds none
PassesLeft(context) ==
    IF context.xml_length - (context.iterator - context.xml) >= 0
    THEN context.xml_length - (context.iterator - context.xml) + 1
    ELSE 1

\* The while loop of hoxml_parse and what follows it: passes until one leaves
RECURSIVE ParseLoop(_, _, _, _)
ParseLoop(context, mem, previous, charSigned) ==
    Let(Passes(Again(context, previous), PassesLeft(context), mem, charSigned),
        LAMBDA pass :
            IF pass.left THEN pass.out
            ELSE ParseLoop(pass.context, mem, pass.previous, charSigned))

\* The depth flags applied at the top of hoxml_parse
ApplyDepthFlags(context) ==
    IF context.stack = NULL THEN context
    ELSE LET flags == HOXML_STACK(context).flags
             inc == IF HasFlag(flags, HOXML_FLAG_INCREMENT_DEPTH) THEN 1 ELSE 0
             dec == IF HasFlag(flags, HOXML_FLAG_DECREMENT_DEPTH) THEN 1 ELSE 0
         IN  [ClearStackFlag(ClearStackFlag(context, HOXML_FLAG_INCREMENT_DEPTH),
                             HOXML_FLAG_DECREMENT_DEPTH)
                EXCEPT !.depth = @ + inc - dec]

\* case HOXML_STATE_ERROR_UNEXPECTED_EOF of the first switch: does the string
\* handed in now start with a character?
EofRecovery(context, mem, xml_length, charSigned) ==
    Let(BytesToCopy(context, xml_length), LAMBDA bytes_to_copy :
        IF bytes_to_copy < 0 THEN Ret(MemcpyOverrun(context), HOXML_ERROR_INTERNAL)
        ELSE
        Let(hoxml_decode_character(
                StreamCopy(context.stream,
                           IF context.stream_length > 0 THEN context.stream_length ELSE 0,
                           mem, 0, bytes_to_copy),
                xml_length, context.encoding, charSigned),
            LAMBDA c :
                IF c.codepoint = 0 \/ c.codepoint = UINT32_MAX
                THEN Ret(context, HOXML_ERROR_UNEXPECTED_EOF)
                ELSE Go([context EXCEPT !.state = context.error_return_state,
                                        !.error_return_state = HOXML_STATE_NONE])))

\* switch(context->state) at the top of hoxml_parse, on the context c0 the
\* depth flags left
FirstSwitch(c0, mem, xml_length, charSigned) ==
    CASE c0.state = HOXML_STATE_ERROR_UNEXPECTED_EOF ->
            EofRecovery(c0, mem, xml_length, charSigned)
      [] c0.state = HOXML_STATE_DONE -> Ret(c0, HOXML_END_OF_DOCUMENT)
      [] c0.state = HOXML_STATE_ERROR_INTERNAL -> Ret(c0, HOXML_ERROR_INTERNAL)
      [] c0.state = HOXML_STATE_ERROR_INSUFFICIENT_MEMORY ->
            Ret(c0, HOXML_ERROR_INSUFFICIENT_MEMORY)
      [] c0.state = HOXML_STATE_ERROR_SYNTAX -> Ret(c0, HOXML_ERROR_SYNTAX)
      [] c0.state = HOXML_STATE_ERROR_ENCODING -> Ret(c0, HOXML_ERROR_ENCODING)
      [] c0.state = HOXML_STATE_ERROR_TAG_MISMATCH -> Ret(c0, HOXML_ERROR_TAG_MISMATCH)
      [] c0.state = HOXML_STATE_ERROR_INVALID_DOCUMENT_DECLARATION ->
            Ret(c0, HOXML_ERROR_INVALID_DOCUMENT_DECLARATION)
      [] OTHER -> Go(c0)

\* mem is the caller's memory at the pointer xml
hoxml_parse(context, xml, xml_length, mem, charSigned) ==
    IF context.is_initialized = 0 \/ xml = NULL \/ xml_length = 0
    THEN Out(Ret(context, HOXML_ERROR_INVALID_INPUT), context)
    ELSE
    Let(FirstSwitch(ApplyDepthFlags(context), mem, xml_length, charSigned),
        LAMBDA first :
        IF first.returned THEN Out(first, context)
        ELSE
        Let(hoxml_post_state_cleanup(first.context, charSigned), LAMBDA cleanup :
            IF cleanup.context.ub
            THEN Out(Ret(cleanup.context, HOXML_ERROR_INTERNAL), context)
            ELSE IF cleanup.returned
            THEN Out(Ret(cleanup.context, HOXML_END_OF_DOCUMENT), context)
            ELSE Let(IF cleanup.context.xml # xml
                     THEN [cleanup.context EXCEPT !.xml = xml,
                                                  !.xml_length = xml_length,
                                                  !.iterator = xml]
                     ELSE cleanup.context,
                     LAMBDA c2 : ParseLoop(c2, mem, c2, charSigned))))


(***************************************************************************)
(* What the caller reads after a call: the strings at the public pointers  *)
(***************************************************************************)
\* A NULL char*
NullString == <<-1>>

RECURSIVE UpToNul(_)
UpToNul(str) ==
    IF str = << >> \/ str[1] = 0 THEN << >> ELSE <<str[1]>> \o UpToNul(Tail(str))

\* The C string at a pointer into the buffer
CStr(context, p) == IF p = NULL THEN NullString ELSE UpToNul(BytesFrom(context, p))

\* The token a caller sees when hoxml_parse returns a positive code
Token(context, code) ==
    [code |-> code,
     tag |-> CStr(context, context.tag),
     attribute |-> IF code = HOXML_ATTRIBUTE THEN CStr(context, context.attribute)
                   ELSE << >>,
     value |-> IF code = HOXML_ATTRIBUTE THEN CStr(context, context.value) ELSE << >>,
     content |-> IF code \in {HOXML_ELEMENT_END, HOXML_PROCESSING_INSTRUCTION_END}
                 THEN CStr(context, context.content) ELSE << >>]

hoxml_code_t == HOXML_ERROR_INVALID_INPUT..HOXML_PROCESSING_INSTRUCTION_END

(***************************************************************************)
(* A caller of hoxml: it holds one context and one working buffer, hands   *)
(* the document to hoxml_parse chunk by chunk and grows the buffer when    *)
(* asked to.                                                               *)
(***************************************************************************)
VARIABLES
    context,      \* the hoxml_context_t
    xml,          \* the pointer last passed to hoxml_parse
    xml_length,   \* the length last passed to hoxml_parse
    mem,          \* the caller's memory at xml
    doc,          \* the document the caller is reading
    fed,          \* the bytes of the document handed over so far
    code,         \* what the last call returned
    tokens,       \* the tokens returned so far
    before,       \* the context when the last character read was about to be read
    call,         \* the last call: what the caller did, the code it came after,
                  \* whether it changed the context
    charSigned,   \* whether plain char is signed in this build
    load,         \* raytmx's LoadTMX: where it is, what it read, what it returned
    raytmxState,  \* the RaytmxState that LoadTMX hands to its handlers
    map           \* the TmxMap that LoadTMX returns

hoxmlVars == <<context, xml, xml_length, mem, doc, fed, code, tokens, before, call, charSigned>>

vars == <<context, xml, xml_length, mem, doc, fed, code, tokens, before, call, charSigned, load,
          raytmxState, map>>

\* Bounds of the exploration
MaxChunk == 3
MaxBufferLength == 512

\* Addresses the allocator hands out: two for working buffers, three for chunks
BufferAddrs == {4096, 8192}
XmlAddrs == {65536, 131072, 196608}

\* A document is a sequence of pieces; a piece is its bytes and what they are
Piece(bytes, kind, name, attributes) ==
    [bytes |-> bytes, kind |-> kind, name |-> name, attributes |-> attributes]

RECURSIVE Flatten(_)
Flatten(pieces) ==
    IF pieces = << >> THEN << >> ELSE pieces[1].bytes \o Flatten(Tail(pieces))

InitWith(buffer_length, documents) ==
    /\ doc \in documents
    /\ context = hoxml_init(Uninitialized(0), 4096, buffer_length)
    /\ xml = NULL
    /\ xml_length = 0
    /\ mem = << >>
    /\ fed = << >>
    /\ code = HOXML_ERROR_INVALID_INPUT
    /\ tokens = << >>
    /\ before = hoxml_init(Uninitialized(0), 4096, buffer_length)
    /\ call = [did |-> "init", after |-> HOXML_ERROR_INVALID_INPUT, moved |-> FALSE]
    /\ charSigned \in BOOLEAN
    /\ load = [pc |-> "start", content |-> "unread", warned |-> {}, map |-> "none"]
    /\ raytmxState = NULL
    /\ map = NULL

\* What the caller holds once hoxml_parse, called on the context given and by
\* the caller doing what, has handed back r
Returned(r, given, what) ==
    /\ context' = r.context
    /\ before' = r.previous
    /\ call' = [did |-> what, after |-> code, moved |-> r.context # given]
    /\ IF r.context.ub
       THEN code' \in hoxml_code_t      \* undefined behaviour: any result
       ELSE code' = r.code
    /\ tokens' = IF ~r.context.ub /\ r.code > HOXML_END_OF_DOCUMENT
                 THEN Append(tokens, Token(r.context, r.code))
                 ELSE tokens

\* One call of hoxml_parse(&context, p, n) with the memory m at p, made by
\* the caller doing what
Call(p, n, m, what) ==
    /\ ~context.ub
    /\ Returned(hoxml_parse(context, p, n, m, charSigned), context, what)
    /\ xml' = p
    /\ xml_length' = n
    /\ mem' = m
    /\ UNCHANGED <<doc, charSigned>>

\* The caller calls again with the arguments of the last call
ParseAgain ==
    /\ xml # NULL
    /\ code # HOXML_ERROR_INSUFFICIENT_MEMORY
    /\ Call(xml, xml_length, mem, "again")
    /\ UNCHANGED <<fed, load, raytmxState, map>>

\* The next n bytes of the document
NextChunk(n) == SubSeq(Flatten(doc), Len(fed) + 1, Len(fed) + n)

\* The caller passes the next n bytes of the document in memory that is
\* neither the memory of the last call nor the memory hoxml remembers
FeedNew(n) ==
    /\ xml = NULL \/ code = HOXML_ERROR_UNEXPECTED_EOF
    /\ Len(fed) + n <= Len(Flatten(doc))
    /\ LET p == CHOOSE a \in XmlAddrs \ {xml, context.xml} :
                    \A b \in XmlAddrs \ {xml, context.xml} : a <= b
       IN  Call(p, n, NextChunk(n), "new")
    /\ fed' = fed \o NextChunk(n)
    /\ UNCHANGED <<load, raytmxState, map>>

\* The caller reads the next n bytes of the document into the memory it used
\* for the last call
FeedSame(n) ==
    /\ xml # NULL
    /\ code = HOXML_ERROR_UNEXPECTED_EOF
    /\ Len(fed) + n <= Len(Flatten(doc))
    /\ Call(xml, n, NextChunk(n) \o Drop(mem, Min(n, Len(mem))), "same")
    /\ fed' = fed \o NextChunk(n)
    /\ UNCHANGED <<load, raytmxState, map>>

\* The caller answers HOXML_ERROR_INSUFFICIENT_MEMORY as ParseDocument does:
\* a buffer of twice the length, hoxml_realloc, and the same call again
GrowCall ==
    /\ code = HOXML_ERROR_INSUFFICIENT_MEMORY
    /\ context.buffer_length * 2 <= MaxBufferLength
    /\ ~context.ub
    /\ \E buffer \in BufferAddrs \ {context.buffer} :
         \E grown \in {hoxml_realloc(context, buffer, context.buffer_length * 2)} :
            Returned(hoxml_parse(grown, xml, xml_length, mem, charSigned), grown, "grow")
    /\ UNCHANGED <<xml, xml_length, mem, doc, fed, charSigned>>

Grow ==
    /\ GrowCall
    /\ UNCHANGED <<load, raytmxState, map>>

\* The documents made of at most n pieces
RECURSIVE Pieced(_, _)
Pieced(pieces, n) ==
    IF n = 0 THEN {<< >>}
    ELSE Let(Pieced(pieces, n - 1), LAMBDA shorter :
            shorter \cup
                {Append(d, q) : d \in {e \in shorter : Len(e) = n - 1}, q \in pieces})

(***************************************************************************)
(* The whole document in one piece: hoxml_parse called on it until it      *)
(* returns something that is not a token                                   *)
(***************************************************************************)
RECURSIVE Drive(_, _, _, _, _)
Drive(ctx, p, whole, toks, signed) ==
    Let(hoxml_parse(ctx, p, Len(whole), whole, signed), LAMBDA r :
        IF r.context.ub THEN [tokens |-> toks, code |-> r.code, ub |-> TRUE]
        ELSE IF r.code > HOXML_END_OF_DOCUMENT
        THEN Drive(r.context, p, whole, Append(toks, Token(r.context, r.code)), signed)
        ELSE [tokens |-> toks, code |-> r.code, ub |-> FALSE])

WholeDocument(whole, buffer_length, signed) ==
    Drive(hoxml_init(Uninitialized(0), 4096, buffer_length), 65536, whole, << >>, signed)

(***************************************************************************)
(* Specification of chunked feeding: documents in UTF-8, with and without  *)
(* a byte order mark, made of tags and text that use U+00E9 (two bytes),   *)
(* handed over in chunks of one to MaxChunk bytes, each in fresh memory    *)
(***************************************************************************)
Utf8Bom == <<239, 187, 191>>
Eacute == <<195, 169>>

MaxPieces == 2

ChunkPieces ==
    {Piece(<<Ch.lt, Ch.a, Ch.gt>>, "open", <<Ch.a>>, << >>),
     Piece(<<Ch.lt, Ch.slash, Ch.a, Ch.gt>>, "close", <<Ch.a>>, << >>),
     Piece(<<Ch.lt>> \o Eacute \o <<Ch.gt>>, "open", Eacute, << >>),
     Piece(<<Ch.lt, Ch.slash>> \o Eacute \o <<Ch.gt>>, "close", Eacute, << >>),
     Piece(Eacute, "text", << >>, << >>)}

ChunkDocuments ==
    {<<Piece(pre, "mark", << >>, << >>)>> \o body :
        pre \in {<< >>, Utf8Bom}, body \in Pieced(ChunkPieces, MaxPieces) \ {<< >>}}

InitChunk == InitWith(MaxBufferLength, ChunkDocuments)

NextChunked ==
    \/ ParseAgain
    \/ \E n \in 1..MaxChunk : FeedNew(n)

SpecChunk == InitChunk /\ [][NextChunked]_vars

\* C1: once the chunks fed so far are used up, the tokens returned are the
\* tokens returned for the same bytes handed over in one piece
ChunkingInvariance ==
    (xml # NULL /\ code <= HOXML_END_OF_DOCUMENT /\ ~context.ub)
        => LET whole == WholeDocument(fed, MaxBufferLength, charSigned) IN
           ~whole.ub => tokens = whole.tokens

(***************************************************************************)
(* Specification of whole documents: a document made of at most            *)
(* MaxDocPieces tags, texts and declarations, or the document named in     *)
(* the description of tag mismatches, is handed over in one piece and      *)
(* hoxml_parse is called on it again and again                             *)
(***************************************************************************)
MaxDocPieces == 3

Open(bytes, name, attributes) == Piece(bytes, "open", name, attributes)
Close(bytes, name) == Piece(bytes, "close", name, << >>)
Text(bytes) == Piece(bytes, "text", << >>, << >>)
Other(bytes) == Piece(bytes, "other", << >>, << >>)

OpenA == Open(<<60, 97, 62>>, <<97>>, << >>)                        \* <a>
OpenB == Open(<<60, 98, 62>>, <<98>>, << >>)                        \* <b>
OpenASpace == Open(<<60, 97, 32, 62>>, <<97>>, << >>)               \* <a >
OpenBAttributes ==                                                  \* <b x="1" y="2">
    Open(<<60, 98, 32, 120, 61, 34, 49, 34, 32, 121, 61, 34, 50, 34, 62>>, <<98>>,
         <<[name |-> <<120>>, value |-> <<49>>], [name |-> <<121>>, value |-> <<50>>]>>)
CloseA == Close(<<60, 47, 97, 62>>, <<97>>)                         \* </a>
CloseB == Close(<<60, 47, 98, 62>>, <<98>>)                         \* </b>
CloseASpace == Close(<<60, 47, 97, 32, 62>>, <<97>>)                \* </a >
CloseAB == Close(<<60, 47, 97, 98, 62>>, <<97, 98>>)                \* </ab>
TextT == Text(<<116>>)                                              \* t
TextNewline == Text(<<10>>)                                         \* a line feed
XmlDeclarationBare == Other(<<60, 63, 120, 109, 108, 63, 62>>)     \* <?xml?>
XmlDeclaration ==                                                   \* <?xml v="1"?>
    Other(<<60, 63, 120, 109, 108, 32, 118, 61, 34, 49, 34, 63, 62>>)
Doctype ==                                                          \* <!DOCTYPE a>
    Other(<<60, 33, 68, 79, 67, 84, 89, 80, 69, 32, 97, 62>>)
Cdata ==                                                            \* <![CDATA[t]]>
    Other(<<60, 33, 91, 67, 68, 65, 84, 65, 91, 116, 93, 93, 62>>)
ProcessingInstruction == Other(<<60, 63, 112, 63, 62>>)            \* <?p?>

DocPieces ==
    {OpenA, OpenB, OpenASpace, OpenBAttributes, CloseA, CloseB, CloseASpace,
     CloseAB, TextT, TextNewline, XmlDeclarationBare, XmlDeclaration, Doctype, Cdata,
     ProcessingInstruction}

\* <a><b></a></b>
CrossedDocument == <<OpenA, OpenB, CloseA, CloseB>>

Documents == (Pieced(DocPieces, MaxDocPieces) \ {<< >>}) \cup {CrossedDocument}

Init == InitWith(MaxBufferLength, Documents)

\* The caller passes the whole document
FeedWhole ==
    /\ xml = NULL
    /\ FeedNew(Len(Flatten(doc)))

Next ==
    \/ FeedWhole
    \/ ParseAgain

Spec == Init /\ [][Next]_vars

\* The last call returned the first result of the run that is not a token
RunEnded ==
    /\ xml # NULL
    /\ code <= HOXML_END_OF_DOCUMENT
    /\ call.did = "new" \/ call.after > HOXML_END_OF_DOCUMENT

(***************************************************************************)
(* What a document made of pieces says, read off the pieces                *)
(***************************************************************************)
\* The index of the first close tag that does not name the open element, the
\* pieces before it being properly nested tags and text; 0 when there is none
RECURSIVE MismatchFrom(_, _, _)
MismatchFrom(pieces, i, open) ==
    IF i > Len(pieces) THEN 0
    ELSE LET q == pieces[i] IN
         CASE q.kind = "open" -> MismatchFrom(pieces, i + 1, <<q.name>> \o open)
           [] q.kind = "text" /\ open # << >> -> MismatchFrom(pieces, i + 1, open)
           [] q.kind = "close" /\ open # << >> ->
                IF q.name = open[1] THEN MismatchFrom(pieces, i + 1, Tail(open)) ELSE i
           [] OTHER -> 0

MismatchAt(pieces) == MismatchFrom(pieces, 1, << >>)

RECURSIVE Count(_, _)
Count(str, byte) ==
    IF str = << >> THEN 0
    ELSE (IF str[1] = byte THEN 1 ELSE 0) + Count(Tail(str), byte)

\* The line a piece starts on
LineOf(pieces, i) == 1 + Count(Flatten(SubSeq(pieces, 1, i - 1)), Ch.lf)

\* One root element, properly nested, nothing but tags and text
RECURSIVE NestedFrom(_, _, _)
NestedFrom(pieces, i, open) ==
    IF i > Len(pieces) THEN open = << >>
    ELSE LET q == pieces[i] IN
         CASE q.kind = "open" /\ (i = 1 \/ open # << >>) ->
                NestedFrom(pieces, i + 1, <<q.name>> \o open)
           [] q.kind = "text" /\ open # << >> -> NestedFrom(pieces, i + 1, open)
           [] q.kind = "close" /\ open # << >> /\ q.name = open[1] ->
                NestedFrom(pieces, i + 1, Tail(open))
           [] OTHER -> FALSE

WellFormed(pieces) == pieces # << >> /\ NestedFrom(pieces, 1, << >>)

RECURSIVE AttributeTokens(_, _)
AttributeTokens(name, attributes) ==
    IF attributes = << >> THEN << >>
    ELSE <<[code |-> HOXML_ATTRIBUTE, tag |-> name, attribute |-> attributes[1].name,
            value |-> attributes[1].value, content |-> << >>]>>
         \o AttributeTokens(name, Tail(attributes))

\* The tokens of properly nested pieces: open is the stack of open elements,
\* each with the text read in it so far
RECURSIVE ExpectedFrom(_, _, _)
ExpectedFrom(pieces, i, open) ==
    IF i > Len(pieces) THEN << >>
    ELSE LET q == pieces[i] IN
         CASE q.kind = "open" ->
                <<[code |-> HOXML_ELEMENT_BEGIN, tag |-> q.name, attribute |-> << >>,
                   value |-> << >>, content |-> << >>]>>
                \o AttributeTokens(q.name, q.attributes)
                \o ExpectedFrom(pieces, i + 1, <<[name |-> q.name, text |-> << >>]>> \o open)
           [] q.kind = "text" ->
                ExpectedFrom(pieces, i + 1,
                    <<[open[1] EXCEPT !.text = @ \o q.bytes]>> \o Tail(open))
           [] q.kind = "close" ->
                <<[code |-> HOXML_ELEMENT_END, tag |-> q.name, attribute |-> << >>,
                   value |-> << >>, content |-> open[1].text]>>
                \o ExpectedFrom(pieces, i + 1, Tail(open))
           [] OTHER -> << >>

ExpectedTokens(pieces) == ExpectedFrom(pieces, 1, << >>)

\* A token with no content pointer reads as a token with empty content
TextOf(token) ==
    IF token.content = NullString THEN [token EXCEPT !.content = << >>] ELSE token

Texts(toks) == [i \in 1..Len(toks) |-> TextOf(toks[i])]

\* The index of the first declaration that comes after the root element has
\* started, only opening tags and text before it; 0 when there is none
RECURSIVE DeclarationFrom(_, _)
DeclarationFrom(pieces, i) ==
    IF i > Len(pieces) THEN 0
    ELSE IF i > 1 /\ pieces[i] \in {XmlDeclarationBare, XmlDeclaration, Doctype} THEN i
    ELSE IF pieces[i].kind = "open" \/ (i > 1 /\ pieces[i].kind = "text")
    THEN DeclarationFrom(pieces, i + 1)
    ELSE 0

LateDeclarationAt(pieces) == DeclarationFrom(pieces, 1)

FatalCodes ==
    {HOXML_ERROR_SYNTAX, HOXML_ERROR_ENCODING, HOXML_ERROR_TAG_MISMATCH,
     HOXML_ERROR_INVALID_DOCUMENT_TYPE_DECLARATION,
     HOXML_ERROR_INVALID_DOCUMENT_DECLARATION, HOXML_ERROR_INTERNAL}

\* C4: a call that comes after a fatal result returns that result again
FatalIsSticky ==
    (call.did = "again" /\ call.after \in FatalCodes /\ ~context.ub)
        => code = call.after

\* C6: a document whose close tag does not name the open element ends with
\* HOXML_ERROR_TAG_MISMATCH on the line of that close tag
MismatchIsReported ==
    (RunEnded /\ MismatchAt(doc) > 0)
        => /\ ~context.ub
           /\ code = HOXML_ERROR_TAG_MISMATCH
           /\ context.line = LineOf(doc, MismatchAt(doc))

\* C8: a well-formed document yields, for every element, one element-begin
\* token, its attributes in order and one element-end token with the name and
\* the text of the element, whatever whitespace follows the name in its tags
ElementTokens ==
    (RunEnded /\ WellFormed(doc))
        => /\ ~context.ub
           /\ code = HOXML_END_OF_DOCUMENT
           /\ Texts(tokens) = ExpectedTokens(doc)

\* C9: no call reads or writes through the node stack while it is empty
NoEmptyStackAccess == context.fault # "stack"

\* C10: a document declaration or a document type declaration that comes
\* after the root element has started ends the run with a fatal result, with
\* no token returned for it
LateDeclarationIsFatal ==
    (RunEnded /\ LateDeclarationAt(doc) > 0)
        => /\ ~context.ub
           /\ code \in FatalCodes
           /\ Len(tokens) = Len(ExpectedTokens(SubSeq(doc, 1, LateDeclarationAt(doc) - 1)))

\* The tokens of a kind among the tokens returned so far
TokensOf(kind) == {i \in DOMAIN tokens : tokens[i].code = kind}

\* C11: HOXML_END_OF_DOCUMENT is returned only after an element has been
\* opened and closed: an element-begin token has been returned, every element
\* begun has ended, and the last element to end is the first that began
EndOnlyAfterRoot ==
    (code = HOXML_END_OF_DOCUMENT /\ xml # NULL /\ ~context.ub)
        => /\ TokensOf(HOXML_ELEMENT_BEGIN) # {}
           /\ Cardinality(TokensOf(HOXML_ELEMENT_BEGIN))
                = Cardinality(TokensOf(HOXML_ELEMENT_END))
           /\ \E i \in TokensOf(HOXML_ELEMENT_BEGIN), j \in TokensOf(HOXML_ELEMENT_END) :
                /\ \A k \in TokensOf(HOXML_ELEMENT_BEGIN) : i <= k
                /\ \A k \in TokensOf(HOXML_ELEMENT_END) : k <= j
                /\ tokens[i].tag = tokens[j].tag

(***************************************************************************)
(* Specification of chunks read into one memory: a document of tags and    *)
(* text in ASCII is handed over in chunks of one to MaxChunk bytes, each   *)
(* in fresh memory or in the memory of the chunk before                    *)
(***************************************************************************)
MaxSamePieces == 2

SameDocuments == Pieced({OpenA, CloseA, TextT}, MaxSamePieces) \ {<< >>}

InitSame == InitWith(MaxBufferLength, SameDocuments)

NextSame ==
    \/ ParseAgain
    \/ \E n \in 1..MaxChunk : FeedNew(n)
    \/ \E n \in 1..MaxChunk : FeedSame(n)

SpecSame == InitSame /\ [][NextSame]_vars

\* C5: the call that passes further content after HOXML_ERROR_UNEXPECTED_EOF
\* reads that content, at the pointer of the chunk before or at another one
NextContentIsRead ==
    (call.did \in {"new", "same"} /\ call.after = HOXML_ERROR_UNEXPECTED_EOF
        /\ ~context.ub)
        => /\ call.moved
           /\ context.xml = xml
           /\ context.xml_length = xml_length

(***************************************************************************)
(* Specification of a growing buffer: the whole document is handed over    *)
(* with a working buffer of GrowLengths bytes, and each                    *)
(* HOXML_ERROR_INSUFFICIENT_MEMORY is answered with a buffer of twice the  *)
(* length, as ParseDocument does                                           *)
(***************************************************************************)
MaxGrowPieces == 3
MinGrowLength == 25
MaxGrowLength == 32

GrowLengths == MinGrowLength..MaxGrowLength

OpenName == Open(<<60, 110, 97, 109, 101, 115, 62>>, <<110, 97, 109, 101, 115>>, << >>)  \* <names>
CloseName == Close(<<60, 47, 110, 97, 109, 101, 115, 62>>, <<110, 97, 109, 101, 115>>)   \* </names>

GrowDocuments ==
    Pieced({OpenA, OpenName, OpenBAttributes, CloseA, CloseName, TextT, TextNewline},
           MaxGrowPieces) \ {<< >>}

InitGrow == \E n \in GrowLengths : InitWith(n, GrowDocuments)

NextGrow ==
    \/ FeedWhole
    \/ ParseAgain
    \/ Grow

SpecGrow == InitGrow /\ [][NextGrow]_vars

\* The last call returned the first result of the run that is neither a token
\* nor a request for more memory
GrowRunEnded ==
    /\ xml # NULL
    /\ code <= HOXML_END_OF_DOCUMENT
    /\ code # HOXML_ERROR_INSUFFICIENT_MEMORY
    /\ \/ call.did \in {"new", "grow"}
       \/ call.after > HOXML_END_OF_DOCUMENT

\* C2: a run that starts with a small buffer and grows it on demand ends with
\* the tokens and the result of the run in a buffer that was large enough
GrowthInvariance ==
    (GrowRunEnded /\ ~context.ub)
        => LET whole == WholeDocument(Flatten(doc), MaxBufferLength, charSigned) IN
           ~whole.ub => (tokens = whole.tokens /\ code = whole.code)

\* C3: when HOXML_ERROR_INSUFFICIENT_MEMORY is returned, the node stack, the
\* line, the column and the input position are what they were when the
\* character that did not fit was about to be read
OverflowChangesNothing ==
    (code = HOXML_ERROR_INSUFFICIENT_MEMORY /\ ~context.ub)
        => /\ context.nodes = before.nodes
           /\ context.stack = before.stack
           /\ context.line = before.line
           /\ context.column = before.column
           /\ context.iterator = before.iterator
           /\ context.stream_length = before.stream_length

(***************************************************************************)
(* Specification of hoxml_realloc on its own: the whole document is handed *)
(* over with a working buffer of GrowLengths bytes; the caller may move    *)
(* hoxml to a buffer of twice the length between any two calls of          *)
(* hoxml_parse, and does so after HOXML_ERROR_INSUFFICIENT_MEMORY          *)
(***************************************************************************)
MaxReallocPieces == 2

TextReference == Text(<<38, 108, 116, 59>>)                         \* &lt;

ReallocDocuments ==
    Pieced({OpenName, OpenBAttributes, CloseName, TextT, TextReference},
           MaxReallocPieces)
        \ {<< >>}

InitRealloc == \E n \in GrowLengths : InitWith(n, ReallocDocuments)

\* hoxml_realloc(&context, buffer, 2 * context.buffer_length) with a buffer
\* that is not the one in use
Realloc ==
    /\ xml # NULL
    /\ call.did # "realloc"
    /\ code > HOXML_END_OF_DOCUMENT \/ code = HOXML_ERROR_INSUFFICIENT_MEMORY
    /\ context.buffer_length * 2 <= MaxBufferLength
    /\ ~context.ub
    /\ \E buffer \in BufferAddrs \ {context.buffer} :
            context' = hoxml_realloc(context, buffer, context.buffer_length * 2)
    /\ call' = [did |-> "realloc", after |-> code, moved |-> TRUE]
    /\ UNCHANGED <<xml, xml_length, mem, doc, fed, code, tokens, before, charSigned, load, raytmxState, map>>

\* The call that follows hoxml_realloc, with the arguments of the last call
ParseAfterRealloc ==
    /\ call.did = "realloc"
    /\ Call(xml, xml_length, mem, "grow")
    /\ UNCHANGED <<fed, load, raytmxState, map>>

NextRealloc ==
    \/ FeedWhole
    \/ ParseAgain
    \/ Realloc
    \/ ParseAfterRealloc

SpecRealloc == InitRealloc /\ [][NextRealloc]_vars

\* The offset of a pointer into the working buffer; -1 for NULL
OffsetOf(c, p) == IF p = NULL THEN -1 ELSE p - c.buffer

\* C12: a step of hoxml_realloc leaves every pointer at the offset it had in
\* the old buffer (the stack head, each node's parent and end, the reference
\* start, tag, attribute, value and content), leaves the bytes they point to
\* and the input position alone, and after HOXML_ERROR_INSUFFICIENT_MEMORY
\* puts back the state in which the memory ran out, which is the state and
\* the input position the character that did not fit was read in
ReallocRebases ==
    [][call'.did = "realloc"
        => /\ context'.buffer # context.buffer
           /\ OffsetOf(context', context'.stack) = OffsetOf(context, context.stack)
           /\ OffsetOf(context', context'.reference_start)
                = OffsetOf(context, context.reference_start)
           /\ OffsetOf(context', context'.tag) = OffsetOf(context, context.tag)
           /\ OffsetOf(context', context'.attribute) = OffsetOf(context, context.attribute)
           /\ OffsetOf(context', context'.value) = OffsetOf(context, context.value)
           /\ OffsetOf(context', context'.content) = OffsetOf(context, context.content)
           /\ Len(context'.nodes) = Len(context.nodes)
           /\ \A i \in DOMAIN context.nodes :
                /\ OffsetOf(context', context'.nodes[i].addr)
                    = OffsetOf(context, context.nodes[i].addr)
                /\ OffsetOf(context', context'.nodes[i].end)
                    = OffsetOf(context, context.nodes[i].end)
                /\ OffsetOf(context', context'.nodes[i].parent)
                    = OffsetOf(context, context.nodes[i].parent)
                /\ context'.nodes[i].flags = context.nodes[i].flags
                /\ context'.nodes[i].data = context.nodes[i].data
           /\ Token(context', HOXML_ATTRIBUTE) = Token(context, HOXML_ATTRIBUTE)
           /\ Token(context', HOXML_ELEMENT_END) = Token(context, HOXML_ELEMENT_END)
           /\ context'.iterator = context.iterator
           /\ context'.xml = context.xml
           /\ context'.xml_length = context.xml_length
           /\ context'.stream_length = context.stream_length
           /\ context'.line = context.line
           /\ context'.column = context.column
           /\ context.state = HOXML_STATE_ERROR_INSUFFICIENT_MEMORY
                => /\ context'.state = context.error_return_state
                   /\ context'.state >= HOXML_STATE_NONE
                   /\ context'.state = before.state
                   /\ context'.iterator = before.iterator
                   /\ context'.stream_length = before.stream_length
           /\ context.state # HOXML_STATE_ERROR_INSUFFICIENT_MEMORY
                => context'.state = context.state
      ]_vars

\* C12 happens: hoxml_realloc has moved a context that ran out of memory in
\* the middle of a reference, with a tag and an open element in the buffer
ReallocatedInReference ==
    /\ call.did = "realloc"
    /\ call.after = HOXML_ERROR_INSUFFICIENT_MEMORY
    /\ context.reference_start # NULL
    /\ context.stack # NULL

(***************************************************************************)
(* Specification of LoadTMX: ParseDocument reads the file, gives hoxml a    *)
(* buffer as long as the text, calls hoxml_parse on the whole text until    *)
(* it returns HOXML_END_OF_DOCUMENT or an error, hands every token to its   *)
(* handler and doubles the buffer on HOXML_ERROR_INSUFFICIENT_MEMORY;       *)
(* LoadTMX returns NULL when ParseDocument did not succeed and the map      *)
(* otherwise                                                                *)
(***************************************************************************)
MaxLoadPieces == 2

\* The files: empty, or at most MaxLoadPieces tags and texts
LoadDocuments == Pieced({OpenA, OpenBAttributes, CloseA, CloseB, TextT}, MaxLoadPieces)

InitLoad == InitWith(MaxBufferLength, LoadDocuments)

\* The model-level conditions a handler may meet and log for a token
HandlerWarnings(token) ==
    CASE token = HOXML_ELEMENT_BEGIN -> {"image"}
      [] token = HOXML_ATTRIBUTE -> {"external tileset"}
      [] token = HOXML_ELEMENT_END -> {"tile data", "compression", "texture", "template"}
      [] OTHER -> {}

\* A loop in which a condition met by a handler ends the load as an error of
\* the parser does
AbortOnWarning(state, returned, met) ==
    IF returned > HOXML_END_OF_DOCUMENT
    THEN IF met # {}
         THEN [state EXCEPT !.warned = @ \cup met, !.pc = "done", !.map = "null"]
         ELSE state
    ELSE IF returned = HOXML_END_OF_DOCUMENT
    THEN [state EXCEPT !.pc = "done", !.map = "populated"]
    ELSE IF returned = HOXML_ERROR_INSUFFICIENT_MEMORY
    THEN state
    ELSE [state EXCEPT !.pc = "done", !.map = "null"]

\* What one turn of ParseDocument's loop makes of the code hoxml_parse
\* returned, the handler having met the conditions in met: the loop goes on
\* after a token and after HOXML_ERROR_INSUFFICIENT_MEMORY, ends with
\* isSuccess set on HOXML_END_OF_DOCUMENT, and ends without on any other code
ParseDocumentTurn(state, returned, met) ==
    IF returned > HOXML_END_OF_DOCUMENT
    THEN [state EXCEPT !.warned = @ \cup met]
    ELSE IF returned = HOXML_END_OF_DOCUMENT
    THEN [state EXCEPT !.pc = "done", !.map = "populated"]
    ELSE IF returned = HOXML_ERROR_INSUFFICIENT_MEMORY
    THEN state
    ELSE [state EXCEPT !.pc = "done", !.map = "null"]

\* LoadFileText fails: ParseDocument returns at once and LoadTMX returns NULL
LoadFileFails ==
    /\ load.pc = "start"
    /\ load' = [load EXCEPT !.pc = "done", !.content = "null", !.map = "null"]
    /\ UNCHANGED <<context, xml, xml_length, mem, doc, fed, code, tokens, before, call,
                   charSigned, raytmxState, map>>

\* LoadFileText succeeds: hoxml gets a buffer as long as the text
LoadFileText ==
    /\ load.pc = "start"
    /\ load' = [load EXCEPT !.pc = "parsing", !.content = "text"]
    /\ \E garbage \in {0, 1} :
            /\ context' = hoxml_init(Uninitialized(garbage), 4096, Len(Flatten(doc)))
            /\ before' = context'
    /\ UNCHANGED <<xml, xml_length, mem, doc, fed, code, tokens, call, charSigned, raytmxState, map>>

\* One turn of the loop: hoxml_parse on the whole text, then the handler
ParseTurn ==
    /\ load.pc = "parsing"
    /\ code # HOXML_ERROR_INSUFFICIENT_MEMORY
    /\ Call(65536, Len(Flatten(doc)), Flatten(doc), IF xml = NULL THEN "new" ELSE "again")
    /\ fed' = Flatten(doc)
    /\ \E met \in SUBSET HandlerWarnings(code') :
            /\ Cardinality(met) <= 1
            /\ load' = ParseDocumentTurn(load, code', met)
    /\ UNCHANGED <<raytmxState, map>>

\* The turn after HOXML_ERROR_INSUFFICIENT_MEMORY: the buffer is doubled first
GrowTurn ==
    /\ load.pc = "parsing"
    /\ GrowCall
    /\ \E met \in SUBSET HandlerWarnings(code') :
            /\ Cardinality(met) <= 1
            /\ load' = ParseDocumentTurn(load, code', met)
    /\ UNCHANGED <<raytmxState, map>>

NextLoad ==
    \/ LoadFileFails
    \/ LoadFileText
    \/ ParseTurn
    \/ GrowTurn

SpecLoad == InitLoad /\ [][NextLoad]_vars

\* C7 as stated: LoadTMX returns NULL only when the file cannot be read or
\* hoxml_parse returned one of the fatal results
NullOnlyWhenFatal ==
    load.map = "null" => (load.content = "null" \/ code \in FatalCodes)

\* C7: LoadTMX returns the map or NULL; NULL when the file cannot be read or
\* hoxml_parse returned an error other than HOXML_ERROR_INSUFFICIENT_MEMORY
\* (a fatal one, HOXML_ERROR_UNEXPECTED_EOF or HOXML_ERROR_INVALID_INPUT), the
\* map when it returned HOXML_END_OF_DOCUMENT, whatever the handlers logged
LoadResult ==
    /\ load.pc = "done" <=> load.map \in {"null", "populated"}
    /\ load.map = "null"
        => \/ load.content = "null"
           \/ (code < HOXML_END_OF_DOCUMENT /\ code # HOXML_ERROR_INSUFFICIENT_MEMORY)
    /\ load.map = "populated" => (load.content = "text" /\ code = HOXML_END_OF_DOCUMENT)
    /\ (load.content = "text" /\ xml # NULL /\ code = HOXML_END_OF_DOCUMENT)
        => load.map = "populated"

\* C7 happens: a file whose handlers logged a warning has been loaded
LoadedWithWarning == load.map = "populated" /\ load.warned # {}

(***************************************************************************)
(* raytmx's handlers (src/raytmx.h).  LoadTMX zeroes a RaytmxState,        *)
(* ParseDocument hands it to HandleElementBegin, HandleAttribute and       *)
(* HandleElementEnd with each token of hoxml, and LoadTMX then builds the  *)
(* TmxMap from it.  Linked lists are sequences, a pointer into a list is   *)
(* an index of it, C strings that the handlers compare with names are      *)
(* strings, and the character data they convert is a sequence of bytes.    *)
(***************************************************************************)

LAYER_TYPE_TILE_LAYER == 0

\* isspace and isdigit of the C locale
isspace(c) == c \in {9, 10, 11, 12, 13, 32}
isdigit(c) == c \in 48..57

\* The digits at the front of str, as atoi accumulates them
RECURSIVE Digits(_, _)
Digits(str, value) ==
    IF str = << >> \/ ~isdigit(Head(str)) THEN value
    ELSE Digits(Tail(str), value * 10 + (Head(str) - 48))

\* atoi: white space is skipped, a sign is taken, and the digits that follow
\* are the value (0 when there is none)
RECURSIVE atoi(_)
atoi(str) ==
    IF str = << >> THEN 0
    ELSE IF isspace(Head(str)) THEN atoi(Tail(str))
    ELSE IF Head(str) = 45 THEN 0 - Digits(Tail(str), 0)
    ELSE IF Head(str) = 43 THEN Digits(Tail(str), 0)
    ELSE Digits(str, 0)

\* An unsigned 32-bit integer is held as the int of the same bits: from 2^31 on
\* it is the value less 2^32

\* The white space that atoi skips, and the digits it then reads
RECURSIVE SkipSpace(_)
SkipSpace(str) ==
    IF str # << >> /\ isspace(Head(str)) THEN SkipSpace(Tail(str)) ELSE str
RECURSIVE LeadingDigits(_)
LeadingDigits(str) ==
    IF str = << >> \/ ~isdigit(Head(str)) THEN << >>
    ELSE <<Head(str)>> \o LeadingDigits(Tail(str))

\* Digits that stand for more than INT_MAX, 2147483647
RECURSIVE Greater(_, _)
Greater(digits, than) ==
    IF digits = << >> THEN FALSE
    ELSE Head(digits) > Head(than)
            \/ (Head(digits) = Head(than) /\ Greater(Tail(digits), Tail(than)))
BeyondInt(digits) ==
    Len(digits) > 10
        \/ (Len(digits) = 10 /\ Greater(digits, <<50, 49, 52, 55, 52, 56, 51, 54, 52, 55>>))

\* The low 32 bits of what digits stand for, as their high and low 16 bits
RECURSIVE Halves(_, _, _)
Halves(digits, hi, lo) ==
    IF digits = << >> THEN [hi |-> hi, lo |-> lo]
    ELSE Halves(Tail(digits),
                (hi * 10 + ((lo * 10 + (Head(digits) - 48)) \div 65536)) % 65536,
                (lo * 10 + (Head(digits) - 48)) % 65536)
Wrapped(digits) ==
    Let(Halves(digits, 0, 0), LAMBDA h :
        (IF h.hi >= 32768 THEN h.hi - 65536 ELSE h.hi) * 65536 + h.lo)

\* (uint32_t)atoi(str) of a string without a sign.  Where the digits stand
\* for more than INT_MAX the behaviour of atoi is undefined: the C libraries
\* either saturate (INT_MAX) or keep the low 32 bits
atoiUnsigned(str, saturates) ==
    Let(LeadingDigits(SkipSpace(str)), LAMBDA digits :
        IF ~BeyondInt(digits) THEN atoi(str)
        ELSE IF saturates THEN 2147483647
        ELSE Wrapped(digits))

\* A pointer to a string or to an array: the null pointer, or what it points at
Null == [null |-> TRUE]
PointerTo(pointed) == [null |-> FALSE, at |-> pointed]

\* A layer as AddGenericLayer allocates it and HandleElementBegin types it.
\* state.layers holds the nodes of the layers in the order of their
\* allocation; 'parent' is the position of the node of the group that the
\* layer was appended to, NULL for the list of the map, so that the list of a
\* group is the nodes of that parent in their order
ZeroTileLayer ==
    [type |-> LAYER_TYPE_TILE_LAYER, width |-> 0, height |-> 0, encoding |-> Null,
     compression |-> Null, tiles |-> Null, tilesLength |-> 0,
     properties |-> Null, propertiesLength |-> 0, id |-> 0, parent |-> NULL]

\* The RaytmxState after LoadTMX's memset
ZeroState ==
    [layers |-> << >>, layer |-> NULL, tileLayer |-> NULL,
     layerTiles |-> << >>, layerTilesLength |-> 0,
     image |-> NULL,
     tilesets |-> << >>, tileset |-> NULL,
     tilesetTiles |-> << >>, tilesetTilesLength |-> 0, tilesetTile |-> NULL,
     properties |-> << >>, propertiesLength |-> 0, propertiesDepth |-> 0,
     property |-> NULL, mapProperties |-> Null, mapPropertiesLength |-> 0,
     objects |-> << >>, objectsLength |-> 0, object |-> NULL, objectGroup |-> NULL,
     templates |-> << >>, groupNode |-> NULL, textures |-> << >>,
     animationFrames |-> << >>, animationFramesLength |-> 0, animationFrame |-> NULL]

\* What a handler leaves: the state and what it gave to TraceLog
Handled(state, log) == [state |-> state, log |-> log]

\* AddTileLayerTile: one more node at the tail of the list of the layer's tiles
AddTileLayerTile(state, gid) ==
    [state EXCEPT !.layerTiles = Append(SubSeq(@, 1, state.layerTilesLength), gid),
                  !.layerTilesLength = @ + 1]

\* AddTileLayerTile for each of the identifiers, in their order
RECURSIVE AddTileLayerTiles(_, _)
AddTileLayerTiles(state, gids) ==
    IF gids = << >> THEN state
    ELSE AddTileLayerTiles(AddTileLayerTile(state, Head(gids)), Tail(gids))

\* HandleElementBegin of <layer>
BeginLayer(state) ==
    [state EXCEPT !.layers = Append(@, [ZeroTileLayer EXCEPT !.parent = state.groupNode]),
                  !.layer = Len(state.layers) + 1,
                  !.tileLayer = Len(state.layers) + 1]

\* HandleAttribute of <layer>: the attributes of a tile layer
AttributeOfLayer(state, attribute, value) ==
    IF state.tileLayer = NULL THEN state
    ELSE IF attribute = "width" THEN [state EXCEPT !.layers[state.tileLayer].width = atoi(value)]
    ELSE IF attribute = "height" THEN [state EXCEPT !.layers[state.tileLayer].height = atoi(value)]
    ELSE state

\* HandleAttribute of <data>; value is the string the attribute's value is copied to
AttributeOfData(state, attribute, value) ==
    IF state.tileLayer = NULL THEN state
    ELSE IF attribute = "encoding"
    THEN [state EXCEPT !.layers[state.tileLayer].encoding = PointerTo(value)]
    ELSE IF attribute = "compression"
    THEN [state EXCEPT !.layers[state.tileLayer].compression = PointerTo(value)]
    ELSE state

\* HandleAttribute of <tile>: a tile of the open tileset, or else a tile of a layer
AttributeOfTile(state, attribute, value) ==
    IF state.tilesetTile # NULL
    THEN IF attribute \in {"id", "type", "class"}
         THEN [state EXCEPT !.tilesetTiles[state.tilesetTile].id = atoi(value)]
         ELSE state
    ELSE IF attribute = "gid" THEN AddTileLayerTile(state, atoi(value))
    ELSE state

\* The unsigned 32-bit integers a uint32_t pointer reads from bytes, four bytes
\* each, the low byte first; bytes left over are not read
RECURSIVE Uint32s(_)
Uint32s(bytes) ==
    IF Len(bytes) < 4 THEN << >>
    ELSE <<bytes[1] + 256 * bytes[2] + 65536 * bytes[3]
                + 16777216 * (IF bytes[4] >= 128 THEN bytes[4] - 256 ELSE bytes[4])>>
            \o Uint32s(Drop(bytes, 4))

\* decoded[i] of the array DecodeDataBase64 returned; the handler reads it
\* without looking at decodedLength, and past the array it reads what is there
DecodedByte(decoded, i, beyond) == IF i < Len(decoded) THEN decoded[i + 1] ELSE beyond

\* The test of the header of a gzip or zlib stream; the array after the header
\* when it passes
GzipHeader(decoded, beyond) ==
    /\ DecodedByte(decoded, 0, beyond) = 31
    /\ DecodedByte(decoded, 1, beyond) = 139
    /\ DecodedByte(decoded, 2, beyond) = 8
ZlibHeader(decoded, beyond) == DecodedByte(decoded, 0, beyond) = 120

\* The characters of str before its first comma
RECURSIVE UpToComma(_)
UpToComma(str) ==
    IF str = << >> \/ Head(str) = 44 THEN << >>
    ELSE <<Head(str)>> \o UpToComma(Tail(str))

\* The loop over comma-separated content: the characters up to a comma or the
\* terminator are copied to valueAsString, the comma is passed, and atoi of
\* valueAsString is a tile identifier.  saturates is what the C library does on
\* overflow
RECURSIVE CsvGids(_, _)
CsvGids(content, saturates) ==
    IF content = << >> THEN << >>
    ELSE Let(UpToComma(content), LAMBDA valueAsString :
         Let(Drop(content, Len(valueAsString)), LAMBDA iterator :
            <<atoiUnsigned(valueAsString, saturates)>>
                \o CsvGids(IF iterator # << >> /\ Head(iterator) = 44 THEN Tail(iterator)
                           ELSE iterator, saturates)))

\* What TraceLog is given by the handlers of tile data
MoreThanOneSource == "layer has more than one source of tile data"
HeaderMismatch == "the stream's header doesn't indicate DEFLATE compression"
DecompressionFailed == "DEFLATE decompression failed"
UnsupportedCompression == "the compression method is unsupported"
UndecodableBase64 == "Unable to decode Base64 data for layer"

\* A Base64 branch that takes the decoded bytes for identifiers whatever the
\* compression and the header are
DataBase64Unchecked(state, tileLayer, decoded, beyond, decompressed) ==
    IF decoded.null THEN Handled(state, {UndecodableBase64})
    ELSE Handled(AddTileLayerTiles(state, Uint32s(decoded.at)), {})

\* The Base64 branch of HandleElementEnd of <data>.  decoded is what
\* DecodeDataBase64 returned and decompressed what DecompressData returned
DataBase64(state, tileLayer, decoded, beyond, decompressed) ==
    IF decoded.null THEN Handled(state, {UndecodableBase64})
    ELSE IF tileLayer.compression.null
    THEN Handled(AddTileLayerTiles(state, Uint32s(decoded.at)), {})
    ELSE IF tileLayer.compression.at \notin {"gzip", "zlib"}
    THEN Handled(state, {UnsupportedCompression})
    ELSE IF ~(IF tileLayer.compression.at = "gzip" THEN GzipHeader(decoded.at, beyond)
              ELSE ZlibHeader(decoded.at, beyond))
    THEN Handled(state, {HeaderMismatch})
    ELSE IF ~decompressed.null /\ Len(decompressed.at) > 0
    THEN Handled(AddTileLayerTiles(state, Uint32s(decompressed.at)), {})
    ELSE Handled(state, {DecompressionFailed})

\* HandleElementEnd of <data> with the content given.  The list 'tiles' that
\* its last block tests is never assigned, so that block is never run and the
\* identifiers stay in the state's list until the layer ends
EndData(state, content, decoded, beyond, decompressed, saturates) ==
    IF state.image # NULL THEN Handled(state, {})
    ELSE IF state.tileLayer # NULL /\ ~state.layers[state.tileLayer].tiles.null
    THEN Handled(state, {MoreThanOneSource})
    ELSE IF state.tileLayer # NULL /\ ~state.layers[state.tileLayer].encoding.null
    THEN Let(state.layers[state.tileLayer], LAMBDA tileLayer :
            IF tileLayer.encoding.at = "base64"
            THEN DataBase64(state, tileLayer, decoded, beyond, decompressed)
            ELSE IF tileLayer.encoding.at = "csv"
            THEN Handled(AddTileLayerTiles(state, CsvGids(content, saturates)), {})
            ELSE Handled(state, {}))
    ELSE Handled(state, {})

\* HandleElementEnd of <layer>: the list of tiles becomes the layer's array
EndLayer(state) ==
    IF state.tileLayer = NULL THEN Handled([state EXCEPT !.layer = NULL], {})
    ELSE IF state.layerTiles # << >> /\ ~state.layers[state.tileLayer].tiles.null
    THEN Handled([state EXCEPT !.layerTiles = << >>, !.layerTilesLength = 0,
                               !.tileLayer = NULL, !.layer = NULL],
                 {MoreThanOneSource})
    ELSE Handled([state EXCEPT
                    !.layers[state.tileLayer].tiles =
                        PointerTo(SubSeq(state.layerTiles, 1, state.layerTilesLength)),
                    !.layers[state.tileLayer].tilesLength = state.layerTilesLength,
                    !.layerTiles = << >>, !.layerTilesLength = 0,
                    !.tileLayer = NULL, !.layer = NULL],
                 {})

\* A tileset and a tile of a tileset as AddTileset and AddTilesetTile allocate them
ZeroTileset ==
    [firstGid |-> 0, lastGid |-> 0, name |-> Null, source |-> Null, tileCount |-> 0,
     columns |-> 0, hasImage |-> FALSE, image |-> [texture |-> 0],
     tiles |-> Null, tilesLength |-> 0, properties |-> Null, propertiesLength |-> 0]
ZeroTilesetTile ==
    [id |-> 0, hasImage |-> FALSE, image |-> [texture |-> 0],
     properties |-> Null, propertiesLength |-> 0,
     objectGroup |-> [objects |-> Null, objectsLength |-> 0],
     hasAnimation |-> FALSE, animation |-> [frames |-> Null, framesLength |-> 0]]

\* HandleElementBegin of <tileset>
BeginTileset(state) ==
    [state EXCEPT !.tilesets = Append(@, ZeroTileset), !.tileset = Len(state.tilesets) + 1]

\* HandleAttribute of <tileset>.  externalTileset is what LoadTSX returns for
\* the file that a 'source' names
AttributeOfTileset(state, attribute, value, externalTileset) ==
    IF state.tileset = NULL THEN state
    ELSE IF attribute = "firstgid"
    THEN [state EXCEPT !.tilesets[state.tileset].firstGid = atoi(value)]
    ELSE IF attribute = "source"
    THEN IF externalTileset.isSuccess
         THEN [state EXCEPT !.tilesets[state.tileset] =
                    [externalTileset.tileset EXCEPT
                        !.firstGid = state.tilesets[state.tileset].firstGid,
                        !.source = PointerTo(value)]]
         ELSE [state EXCEPT !.tilesets[state.tileset].source = PointerTo(value)]
    ELSE IF attribute = "name"
    THEN [state EXCEPT !.tilesets[state.tileset].name = PointerTo(value)]
    ELSE IF attribute = "tilecount"
    THEN [state EXCEPT !.tilesets[state.tileset].tileCount = atoi(value)]
    ELSE IF attribute = "columns"
    THEN [state EXCEPT !.tilesets[state.tileset].columns = atoi(value)]
    ELSE state

\* Where 'image' points: at the image of the open tile of a tileset, or at
\* the image of the open tileset
ImageOfTilesetTile == 1
ImageOfTileset == 2

\* What TraceLog is given when an element has a second image
MultipleImages == "an element contained multiple images"

\* HandleElementBegin of <image>, in a tile of a tileset, a tileset or an image
\* layer; 'image' then points into that element
BeginImage(state) ==
    IF state.tilesetTile = NULL /\ state.tileset = NULL THEN Handled(state, {})
    ELSE IF \/ state.tilesetTile # NULL /\ state.tilesetTiles[state.tilesetTile].hasImage
            \/ state.tileset # NULL /\ state.tilesets[state.tileset].hasImage
    THEN Handled(state, {MultipleImages})
    ELSE IF state.tilesetTile # NULL
    THEN Handled([state EXCEPT !.tilesetTiles[state.tilesetTile].hasImage = TRUE,
                               !.image = ImageOfTilesetTile], {})
    ELSE Handled([state EXCEPT !.tilesets[state.tileset].hasImage = TRUE,
                               !.image = ImageOfTileset], {})

\* HandleAttribute of <image>: cachedTexture is what LoadCachedTexture returns
\* for the file that 'source' names, the texture or NULL
AttributeOfImage(state, attribute, cachedTexture) ==
    IF state.image = NULL \/ attribute # "source" \/ cachedTexture.null THEN state
    ELSE IF state.image = ImageOfTilesetTile
    THEN [state EXCEPT !.tilesetTiles[state.tilesetTile].image.texture = cachedTexture.at]
    ELSE [state EXCEPT !.tilesets[state.tileset].image.texture = cachedTexture.at]

\* HandleElementEnd of <image>
EndImage(state) == [state EXCEPT !.image = NULL]

\* HandleElementBegin of <tile>
BeginTile(state) ==
    IF state.tileset = NULL THEN state
    ELSE [state EXCEPT
            !.tilesetTiles = Append(SubSeq(@, 1, state.tilesetTilesLength), ZeroTilesetTile),
            !.tilesetTilesLength = @ + 1,
            !.tilesetTile = state.tilesetTilesLength + 1]

\* HandleElementEnd of <tile>
EndTile(state) == [state EXCEPT !.tilesetTile = NULL]

\* HandleElementEnd of <tileset>: the list of tiles becomes the tileset's array
EndTileset(state) ==
    IF state.tileset = NULL THEN state
    ELSE Let([state EXCEPT !.tilesets[state.tileset].name = IF @.null THEN PointerTo("") ELSE @,
                           !.tileset = NULL],
             LAMBDA named :
                IF state.tilesetTiles = << >> THEN named
                ELSE [named EXCEPT
                        !.tilesets[state.tileset].tiles =
                            PointerTo(SubSeq(state.tilesetTiles, 1, state.tilesetTilesLength)),
                        !.tilesets[state.tileset].tilesLength = state.tilesetTilesLength,
                        !.tilesetTiles = << >>, !.tilesetTilesLength = 0])

\* a < b of two uint32_t
UnsignedLess(a, b) == IF (a < 0) = (b < 0) THEN a < b ELSE b < 0

\* The tileset.lastGid that LoadTMX assigns in its loop over the tilesets
LastGid(tileset) ==
    IF tileset.hasImage THEN tileset.firstGid + tileset.tileCount - 1
    ELSE IF tileset.tilesLength > 0
    THEN tileset.firstGid + tileset.tiles.at[tileset.tilesLength].id - 1
    ELSE tileset.lastGid

\* gidsToTilesLength after the tilesets from the i-th on
RECURSIVE GidsToTilesLength(_, _, _)
GidsToTilesLength(tilesets, i, gidsToTilesLength) ==
    IF i > Len(tilesets) THEN gidsToTilesLength
    ELSE GidsToTilesLength(tilesets, i + 1,
            IF UnsignedLess(gidsToTilesLength, LastGid(tilesets[i]) + 1)
            THEN LastGid(tilesets[i]) + 1
            ELSE gidsToTilesLength)

\* A TmxTile of the zeroed array
ZeroTile ==
    [gid |-> 0, texture |-> 0, hasAnimation |-> FALSE,
     animation |-> [frames |-> Null, framesLength |-> 0], frameIndex |-> 0, frameTime |-> 0]

\* gidsToTiles[gid] as it is read before it is assigned to; outside of the
\* array anything is read, and the write that follows is recorded by WriteTile
TileAt(table, gid) == IF gid \in DOMAIN table.at THEN table.at[gid] ELSE ZeroTile

\* The position of the first tile of the tileset with the local id, or 0
ExplicitTile(tileset, id) ==
    IF \E j \in 1..tileset.tilesLength : tileset.tiles.at[j].id = id
    THEN CHOOSE j \in 1..tileset.tilesLength :
            /\ tileset.tiles.at[j].id = id
            /\ \A k \in 1..(j - 1) : tileset.tiles.at[k].id # id
    ELSE 0

\* What LoadTMX assigns to gidsToTiles[gid] for the local id of a tileset with
\* a shared image: the animation of the explicit tile with that id, where the
\* 'gid' is the tileset's first, or else the texture of the shared image
SharedImageTile(tile, tileset, id) ==
    Let(ExplicitTile(tileset, id), LAMBDA j :
    Let(IF j # 0 /\ tileset.tiles.at[j].hasAnimation
        THEN [tile EXCEPT !.gid = tileset.firstGid, !.hasAnimation = TRUE,
                          !.animation = tileset.tiles.at[j].animation]
        ELSE [tile EXCEPT !.gid = id + tileset.firstGid],
        LAMBDA found :
            IF found.hasAnimation THEN found
            ELSE [found EXCEPT !.texture = tileset.image.texture]))

\* gidsToTiles[gid] is written; a gid that is not an index of the array is a
\* write outside of it
WriteTile(table, gid, tile) ==
    IF gid \in DOMAIN table.at THEN [table EXCEPT !.at[gid] = tile]
    ELSE [table EXCEPT !.ub = TRUE]

\* The tiles of a tileset with a shared image, from the local id on; id %
\* columns divides by zero when the tileset gives no columns
RECURSIVE SharedImageTiles(_, _, _)
SharedImageTiles(table, tileset, id) ==
    IF ~UnsignedLess(id, tileset.tileCount) THEN table
    ELSE IF tileset.columns = 0 THEN [table EXCEPT !.ub = TRUE]
    ELSE SharedImageTiles(
            WriteTile(table, id + tileset.firstGid,
                      SharedImageTile(TileAt(table, id + tileset.firstGid), tileset, id)),
            tileset, id + 1)

\* The tiles of a collection of images, from the j-th of its tiles on
RECURSIVE CollectionTiles(_, _, _)
CollectionTiles(table, tileset, j) ==
    IF j > tileset.tilesLength THEN table
    ELSE Let(tileset.tiles.at[j], LAMBDA tilesetTile :
            CollectionTiles(
                IF ~tilesetTile.hasImage THEN table
                ELSE WriteTile(table, tileset.firstGid + tilesetTile.id,
                               [TileAt(table, tileset.firstGid + tilesetTile.id) EXCEPT
                                    !.gid = tileset.firstGid + tilesetTile.id,
                                    !.texture = tilesetTile.image.texture]),
                tileset, j + 1))

\* The loop that fills gidsToTiles, from the i-th tileset on
RECURSIVE TilesOfTilesets(_, _, _)
TilesOfTilesets(table, tilesets, i) ==
    IF i > Len(tilesets) THEN table
    ELSE TilesOfTilesets(
            IF tilesets[i].hasImage THEN SharedImageTiles(table, tilesets[i], 0)
            ELSE CollectionTiles(table, tilesets[i], 1),
            tilesets, i + 1)

\* The positions, from i on, of the nodes of the list of a group, or of the
\* map for NULL
RECURSIVE ChildrenFrom(_, _, _)
ChildrenFrom(nodes, groupNode, i) ==
    IF i > Len(nodes) THEN << >>
    ELSE (IF nodes[i].parent = groupNode THEN <<i>> ELSE << >>)
            \o ChildrenFrom(nodes, groupNode, i + 1)

\* AppendLayerTo: the array of the layers of the list of a group, or of the
\* map, each group with the array of its own list
RECURSIVE AppendLayerTo(_, _)
AppendLayerTo(nodes, groupNode) ==
    Let(ChildrenFrom(nodes, groupNode, 1), LAMBDA children :
        [k \in 1..Len(children) |->
            IF ChildrenFrom(nodes, children[k], 1) # << >>
            THEN [nodes[children[k]] EXCEPT
                    !.layers = PointerTo(AppendLayerTo(nodes, children[k])),
                    !.layersLength = Len(ChildrenFrom(nodes, children[k], 1))]
            ELSE nodes[children[k]]])

\* The TmxMap that LoadTMX builds from the state once the document has been
\* read.  Of the fields that MemAllocZero zeroes, 'properties' and
\* 'propertiesLength' are assigned nowhere
LoadedMap(state) ==
    Let([i \in DOMAIN state.tilesets |->
            [state.tilesets[i] EXCEPT !.lastGid = LastGid(state.tilesets[i])]],
        LAMBDA tilesets :
    Let(GidsToTilesLength(state.tilesets, 1, 0), LAMBDA gidsToTilesLength :
    Let(IF gidsToTilesLength > 0
        THEN TilesOfTilesets([at |-> [gid \in 0..(gidsToTilesLength - 1) |-> ZeroTile],
                              ub |-> FALSE], tilesets, 1)
        ELSE [at |-> << >>, ub |-> FALSE],
        LAMBDA table :
            [properties |-> Null,
             propertiesLength |-> 0,
             tilesets |-> tilesets,
             tilesetsLength |-> Len(tilesets),
             layers |-> AppendLayerTo(state.layers, NULL),
             layersLength |-> Len(ChildrenFrom(state.layers, NULL, 1)),
             gidsToTiles |-> IF gidsToTilesLength > 0 THEN PointerTo(table.at) ELSE Null,
             gidsToTilesLength |-> IF gidsToTilesLength > 0 THEN gidsToTilesLength ELSE 0,
             ub |-> table.ub])))

\* What TraceLog is given while the map is built
NoTilesets == "The map does not contain any tilesets"
NoLayers == "The map does not contain any layers"
LoadedMapLog(state) ==
    (IF state.tilesets = << >> THEN {NoTilesets} ELSE {})
        \cup (IF state.layers = << >> THEN {NoLayers} ELSE {})

(***************************************************************************)
(* Specification of the tile layers of a map.  ParseDocument hands the     *)
(* tokens of a document of <layer> elements to the handlers; the elements  *)
(* that are open, and what the document gave for each layer, are kept in   *)
(* 'load'.                                                                 *)
(***************************************************************************)

\* Bounds of the exploration
MaxLayers == 2
MaxSources == 2

\* The values of 'gid' in the documents, "1" and "2", and of 'width' and
\* 'height', "2"
GidValues == {<<49>>, <<50>>}
DimensionValues == {<<50>>}

\* The content of a <data> of comma-separated values: "1", "1,2," and
\* "\n1,\n2\n"
CsvContents == {<<49>>, <<49, 44, 50, 44>>, <<10, 49, 44, 10, 50, 10>>}

\* What DecodeDataBase64 returns: NULL, or the bytes; of the header of a gzip
\* stream, of a part of it, of the header of a zlib stream
DecodedData ==
    {Null, PointerTo(<<31, 139, 8, 0, 0, 0, 0, 0, 0, 3>>), PointerTo(<<31, 139>>),
     PointerTo(<<120, 156, 0, 0>>)}

\* What DecompressData returns: NULL, nothing, or the bytes of one identifier
DecompressedData == {Null, PointerTo(<< >>), PointerTo(<<2, 0, 0, 0>>)}

\* What the handler reads past the end of the decoded bytes
BeyondBytes == {0, 8}

\* The values of 'encoding' and 'compression' in the documents
EncodingValues == {"csv", "base64"}
CompressionValues == {"gzip", "zlib", "zstd"}

\* The document is being read and the innermost open element is tag
Inside(tag) ==
    /\ load.pc = "parsing"
    /\ load.open # << >>
    /\ load.open[Len(load.open)] = tag

\* The value the document gave the open element for an attribute, "" for none
Given(attribute) ==
    IF \E pair \in load.given : pair[1] = attribute
    THEN (CHOOSE pair \in load.given : pair[1] = attribute)[2]
    ELSE ""

\* load once a start tag has been read, and once an end tag has been read.
\* Where load.had holds the depths of the open elements that have had their
\* <properties>, the depth of the element that ends leaves it
Opened(tag) == [load EXCEPT !.open = Append(@, tag), !.head = TRUE, !.given = {}]
Closed ==
    IF "had" \in DOMAIN load
    THEN [load EXCEPT !.open = SubSeq(@, 1, Len(@) - 1), !.head = FALSE, !.given = {},
                      !.had = @ \ {Len(load.open)}]
    ELSE [load EXCEPT !.open = SubSeq(@, 1, Len(@) - 1), !.head = FALSE, !.given = {}]

\* The number of sources of tiles that the layers have got
RECURSIVE SourcesRead(_)
SourcesRead(sources) ==
    IF sources = << >> THEN 0 ELSE Len(Head(sources)) + SourcesRead(Tail(sources))

\* load once the open layer has got one more source of tiles
Sourced(state, source) ==
    [state EXCEPT !.sources[Len(state.sources)] = Append(@, source)]

\* What is wrong with the Base64 payload of a <data>, by what the document
\* gives: a compression that is neither gzip nor zlib, or a first byte of the
\* stream that is not the header's
PayloadError(compression, decoded) ==
    IF compression = "" \/ decoded.null THEN ""
    ELSE IF compression \notin {"gzip", "zlib"} THEN UnsupportedCompression
    ELSE IF decoded.at[1] # (IF compression = "gzip" THEN 31 ELSE 120) THEN HeaderMismatch
    ELSE ""

InitLayers ==
    /\ doc = << >>
    /\ context = hoxml_init(Uninitialized(0), 4096, MaxBufferLength)
    /\ xml = NULL
    /\ xml_length = 0
    /\ mem = << >>
    /\ fed = << >>
    /\ code = HOXML_ERROR_INVALID_INPUT
    /\ tokens = << >>
    /\ before = context
    /\ call = [did |-> "init", after |-> HOXML_ERROR_INVALID_INPUT, moved |-> FALSE]
    /\ charSigned = FALSE
    /\ load = [pc |-> "parsing", content |-> "text", warned |-> {}, map |-> "none",
               open |-> << >>, head |-> FALSE, given |-> {}, sources |-> << >>]
    /\ raytmxState = ZeroState
    /\ map = Null

\* <layer
LayerBegin ==
    /\ load.pc = "parsing"
    /\ load.open = << >>
    /\ Len(raytmxState.layers) < MaxLayers
    /\ raytmxState' = BeginLayer(raytmxState)
    /\ load' = [Opened("layer") EXCEPT !.sources = Append(@, << >>)]
    /\ UNCHANGED <<hoxmlVars, map>>

\* width="..." or height="..." of the <layer>
LayerAttribute ==
    /\ Inside("layer")
    /\ load.head
    /\ \E attribute \in {"width", "height"}, value \in DimensionValues :
            /\ Given(attribute) = ""
            /\ raytmxState' = AttributeOfLayer(raytmxState, attribute, value)
            /\ load' = [load EXCEPT !.given = @ \cup {<<attribute, "given">>}]
    /\ UNCHANGED <<hoxmlVars, map>>

\* <data, for which HandleElementBegin does nothing
DataBegin ==
    /\ Inside("layer")
    /\ SourcesRead(load.sources) < MaxSources
    /\ load' = Opened("data")
    /\ UNCHANGED <<hoxmlVars, raytmxState, map>>

\* encoding="..." or compression="..." of the <data>
DataAttribute ==
    /\ Inside("data")
    /\ load.head
    /\ \E attribute \in {"encoding", "compression"} :
       \E value \in IF attribute = "encoding" THEN EncodingValues ELSE CompressionValues :
            /\ Given(attribute) = ""
            /\ raytmxState' = AttributeOfData(raytmxState, attribute, value)
            /\ load' = [load EXCEPT !.given = @ \cup {<<attribute, value>>}]
    /\ UNCHANGED <<hoxmlVars, map>>

\* <tile gid="..."/> in a <layer> or in its <data>: HandleElementBegin,
\* HandleAttribute and HandleElementEnd of it
LayerTile ==
    /\ Inside("layer") \/ Inside("data")
    /\ SourcesRead(load.sources) + (IF Inside("data") THEN 1 ELSE 0) < MaxSources
    /\ \E value \in GidValues :
            /\ raytmxState' = EndTile(AttributeOfTile(BeginTile(raytmxState), "gid", value))
            /\ load' = [Sourced(load, [kind |-> "tile", encoded |-> FALSE, error |-> "",
                                        gids |-> <<atoi(value)>>])
                            EXCEPT !.head = FALSE]
    /\ UNCHANGED <<hoxmlVars, map>>

\* </data>, with the content read and what raylib makes of it
DataEnd ==
    /\ Inside("data")
    /\ \E content \in CsvContents, decoded \in DecodedData, beyond \in BeyondBytes,
          decompressed \in DecompressedData, saturates \in BOOLEAN :
         \E handled \in {EndData(raytmxState, content, decoded, beyond, decompressed,
                                  saturates)} :
            /\ raytmxState' = handled.state
            /\ load' = [Sourced(Closed,
                                [kind |-> "data",
                                 encoded |-> Given("encoding") # "",
                                 error |-> IF Given("encoding") = "base64"
                                           THEN PayloadError(Given("compression"), decoded)
                                           ELSE "",
                                 gids |-> Drop(handled.state.layerTiles,
                                               raytmxState.layerTilesLength)])
                            EXCEPT !.warned = @ \cup handled.log]
    /\ UNCHANGED <<hoxmlVars, map>>

\* </layer>
LayerEnd ==
    /\ Inside("layer")
    /\ \E handled \in {EndLayer(raytmxState)} :
            /\ raytmxState' = handled.state
            /\ load' = [Closed EXCEPT !.warned = @ \cup handled.log]
    /\ UNCHANGED <<hoxmlVars, map>>

\* hoxml_parse returns HOXML_END_OF_DOCUMENT: LoadTMX builds the map
EndOfDocument ==
    /\ load.pc = "parsing"
    /\ load.open = << >>
    /\ load' = [load EXCEPT !.pc = "done", !.map = "populated",
                            !.warned = @ \cup LoadedMapLog(raytmxState)]
    /\ map' = LoadedMap(raytmxState)
    /\ UNCHANGED <<hoxmlVars, raytmxState>>

NextLayers ==
    \/ LayerBegin
    \/ LayerAttribute
    \/ DataBegin
    \/ DataAttribute
    \/ LayerTile
    \/ DataEnd
    \/ LayerEnd
    \/ EndOfDocument

SpecLayers == InitLayers /\ [][NextLayers]_vars

\* The layers of the state whose end tag has been read
ClosedLayers == DOMAIN raytmxState.layers \ {raytmxState.layer}

\* C13: in every finished map, the tiles array of each tile layer has exactly
\* width x height entries, width and height being the layer's attributes
TilesLengthIsArea ==
    load.map = "populated"
        => \A i \in DOMAIN map.layers :
              map.layers[i].tilesLength = map.layers[i].width * map.layers[i].height

\* The identifiers of the sources, one source after the other
RECURSIVE GidsOf(_)
GidsOf(sources) ==
    IF sources = << >> THEN << >> ELSE Head(sources).gids \o GidsOf(Tail(sources))

\* The sources among those of a layer that are <tile> elements, and those that
\* are <data> elements with an encoding
TileSources(sources) == {k \in DOMAIN sources : sources[k].kind = "tile"}
DataSources(sources) == {k \in DOMAIN sources : sources[k].encoded}

\* A layer has competing sources of tile data: <tile> elements and an encoded
\* <data>, or more than one encoded <data>
Competing(sources) ==
    \/ TileSources(sources) # {} /\ DataSources(sources) # {}
    \/ Cardinality(DataSources(sources)) > 1

\* The identifiers of the <tile> elements among the sources
TileGidsOf(sources) ==
    GidsOf([k \in 1..Len(sources) |->
                IF sources[k].kind = "tile" THEN sources[k]
                ELSE [sources[k] EXCEPT !.gids = << >>]])

\* C19: a layer with more than one competing source of tile data (<tile>
\* elements together with an encoded <data>, or more than one <data>) has had
\* a warning logged once it has ended, it has the tiles of a single source, and
\* the document goes on being loaded
OneSourceIsKept ==
    \A i \in ClosedLayers :
        Competing(load.sources[i])
            => /\ MoreThanOneSource \in load.warned
               /\ \/ raytmxState.layers[i].tiles.at = TileGidsOf(load.sources[i])
                  \/ \E k \in DataSources(load.sources[i]) :
                        raytmxState.layers[i].tiles.at = load.sources[i][k].gids
               /\ load.pc = "parsing" \/ load.map = "populated"

(***************************************************************************)
(* Specification of layers whose tiles are all in <data> elements          *)
(***************************************************************************)

NextData ==
    \/ LayerBegin
    \/ DataBegin
    \/ DataAttribute
    \/ DataEnd
    \/ LayerEnd
    \/ EndOfDocument

SpecData == InitLayers /\ [][NextData]_vars

\* The end tag of a <data> is read in this step, and its payload has a
\* compression that is not supported or a header that is not its compression's
FailedDataEnds ==
    /\ Inside("data")
    /\ load'.open # load.open
    /\ load'.sources[Len(load'.sources)][Len(load'.sources[Len(load'.sources)])].error # ""

\* The layers whose only source of tiles was such a <data>
FailedLayers ==
    {i \in ClosedLayers : Len(load.sources[i]) = 1 /\ load.sources[i][1].error # ""}

\* C18: a <data> with a zlib or gzip header mismatch or an unsupported
\* compression is logged and changes nothing else: the layer it is the data of
\* ends with an empty tile array, every layer ends with the tiles of its own
\* sources, and the document is loaded, with all of its layers in the map
DataErrorIsLayerScoped ==
    /\ [][FailedDataEnds
            => /\ raytmxState' = raytmxState
               /\ load'.warned \ load.warned
                    \subseteq {HeaderMismatch, UnsupportedCompression}
               /\ load'.warned \cap {HeaderMismatch, UnsupportedCompression} # {}
               /\ load'.pc = "parsing"]_vars
    /\ [](/\ \A i \in FailedLayers :
                /\ raytmxState.layers[i].tilesLength = 0
                /\ raytmxState.layers[i].tiles.at = << >>
                /\ load.warned \cap {HeaderMismatch, UnsupportedCompression} # {}
          /\ \A i \in ClosedLayers :
                /\ raytmxState.layers[i].tiles.at = GidsOf(load.sources[i])
                /\ raytmxState.layers[i].tilesLength = Len(GidsOf(load.sources[i]))
          /\ load.map = "populated"
                => /\ map.layers = raytmxState.layers
                   /\ map.layersLength = Len(load.sources))

\* C18 happens: a map has been loaded in which a layer whose data had the
\* wrong header is empty and a later layer has its tiles
LoadedAfterDataError ==
    /\ load.map = "populated"
    /\ \E i \in FailedLayers, j \in DOMAIN map.layers :
            /\ i < j
            /\ load.sources[i][1].error = HeaderMismatch
            /\ map.layers[i].tilesLength = 0
            /\ map.layers[j].tilesLength > 0

(***************************************************************************)
(* Specification of the tilesets of a map: the handlers are given the      *)
(* tokens of a document of <tileset> elements, and LoadTMX then builds the *)
(* map and its table from identifiers to tiles.                            *)
(***************************************************************************)

\* Bounds of the exploration
MaxTilesets == 2
MaxTilesetTiles == 2

\* The values of the attributes in the documents: 'firstgid' "1", "2";
\* 'tilecount' "1", "2"; 'columns' "1"; 'id' "0", "1"
FirstGidValues == {<<49>>, <<50>>}
TileCountValues == {<<49>>, <<50>>}
ColumnsValues == {<<49>>}
TileIdValues == {<<48>>, <<49>>}

\* What LoadTSX returns when the file is not a tileset's
NoExternalTileset == [isSuccess |-> FALSE, tileset |-> ZeroTileset]

\* The attributes of <tileset> in the order the documents give them, and the
\* values the documents give them
TilesetAttributes == <<"firstgid", "tilecount", "columns">>
TilesetValues(attribute) ==
    IF attribute = "firstgid" THEN FirstGidValues
    ELSE IF attribute = "tilecount" THEN TileCountValues
    ELSE ColumnsValues

\* The number of <tile> elements read in the tilesets
RECURSIVE TilesRead(_)
TilesRead(tilesets) ==
    IF tilesets = << >> THEN 0 ELSE Head(tilesets).tilesLength + TilesRead(Tail(tilesets))

\* The number of <image> elements read in the tilesets and in their tiles
ImagesIn(tiles) == Cardinality({j \in DOMAIN tiles : tiles[j].hasImage})
RECURSIVE ImagesRead(_)
ImagesRead(tilesets) ==
    IF tilesets = << >> THEN 0
    ELSE (IF Head(tilesets).hasImage THEN 1 ELSE 0)
            + (IF Head(tilesets).tiles.null THEN 0 ELSE ImagesIn(Head(tilesets).tiles.at))
            + ImagesRead(Tail(tilesets))

InitTilesets == InitLayers

\* <tileset
TilesetBegin ==
    /\ load.pc = "parsing"
    /\ load.open = << >>
    /\ Len(raytmxState.tilesets) < MaxTilesets
    /\ raytmxState' = BeginTileset(raytmxState)
    /\ load' = Opened("tileset")
    /\ UNCHANGED <<hoxmlVars, map>>

\* An attribute of the <tileset>, after those that come before it
TilesetAttribute ==
    /\ Inside("tileset")
    /\ load.head
    /\ \E k \in DOMAIN TilesetAttributes :
       \E value \in TilesetValues(TilesetAttributes[k]) :
            /\ \A later \in k..Len(TilesetAttributes) : Given(TilesetAttributes[later]) = ""
            /\ raytmxState' = AttributeOfTileset(raytmxState, TilesetAttributes[k], value,
                                                 NoExternalTileset)
            /\ load' = [load EXCEPT !.given = @ \cup {<<TilesetAttributes[k], "given">>}]
    /\ UNCHANGED <<hoxmlVars, map>>

\* <image source="..."/>, the first in a <tileset> or in a <tile> of it:
\* HandleElementBegin, HandleAttribute and HandleElementEnd of it.  Each image
\* of a document is another file, and LoadCachedTexture gives each its texture
Image ==
    /\ \/ Inside("tileset") /\ ~raytmxState.tilesets[raytmxState.tileset].hasImage
       \/ Inside("tile") /\ ~raytmxState.tilesetTiles[raytmxState.tilesetTile].hasImage
    /\ \E cachedTexture \in {PointerTo(ImagesRead(raytmxState.tilesets)
                                        + ImagesIn(raytmxState.tilesetTiles) + 1)} :
       \E begun \in {BeginImage(raytmxState)} :
            /\ raytmxState' = EndImage(AttributeOfImage(begun.state, "source", cachedTexture))
            /\ load' = [load EXCEPT !.head = FALSE, !.warned = @ \cup begun.log]
    /\ UNCHANGED <<hoxmlVars, map>>

\* <tile in a <tileset>
TileBegin ==
    /\ Inside("tileset")
    /\ TilesRead(raytmxState.tilesets) + raytmxState.tilesetTilesLength < MaxTilesetTiles
    /\ raytmxState' = BeginTile(raytmxState)
    /\ load' = Opened("tile")
    /\ UNCHANGED <<hoxmlVars, map>>

\* id="..." of the <tile>
TileAttribute ==
    /\ Inside("tile")
    /\ load.head
    /\ Given("id") = ""
    /\ \E value \in TileIdValues :
            raytmxState' = AttributeOfTile(raytmxState, "id", value)
    /\ load' = [load EXCEPT !.given = @ \cup {<<"id", "given">>}]
    /\ UNCHANGED <<hoxmlVars, map>>

\* </tile>
TileEnd ==
    /\ Inside("tile")
    /\ raytmxState' = EndTile(raytmxState)
    /\ load' = Closed
    /\ UNCHANGED <<hoxmlVars, map>>

\* </tileset>
TilesetEnd ==
    /\ Inside("tileset")
    /\ raytmxState' = EndTileset(raytmxState)
    /\ load' = Closed
    /\ UNCHANGED <<hoxmlVars, map>>

NextTilesets ==
    \/ TilesetBegin
    \/ TilesetAttribute
    \/ Image
    \/ TileBegin
    \/ TileAttribute
    \/ TileEnd
    \/ TilesetEnd
    \/ EndOfDocument

SpecTilesets == InitTilesets /\ [][NextTilesets]_vars

\* The largest id among the tiles of a tileset that has tiles
MaxTileId(tileset) ==
    CHOOSE id \in {tileset.tiles.at[j].id : j \in 1..tileset.tilesLength} :
        \A j \in 1..tileset.tilesLength : tileset.tiles.at[j].id <= id

\* The last identifier of a tileset as C14 has it; a tileset with neither a
\* shared image nor tiles has none, and lastGid is left as it was
LastIdentifier(tileset) ==
    IF tileset.hasImage THEN tileset.firstGid + tileset.tileCount - 1
    ELSE IF tileset.tilesLength > 0 THEN tileset.firstGid + MaxTileId(tileset)
    ELSE tileset.lastGid

\* C14: the last identifier that LoadTMX computes for a tileset is firstGid +
\* tileCount - 1 when the tileset has a shared image, and firstGid + the
\* largest id of its tiles when it is a collection of images
LastGidIsLastIdentifier ==
    load.map = "populated"
        => \A i \in DOMAIN map.tilesets : map.tilesets[i].lastGid = LastIdentifier(map.tilesets[i])

\* The largest of the last identifiers of the tilesets
MaxLastIdentifier(tilesets) ==
    CHOOSE last \in {LastIdentifier(tilesets[i]) : i \in DOMAIN tilesets} :
        \A i \in DOMAIN tilesets : ~UnsignedLess(last, LastIdentifier(tilesets[i]))

\* C15: after LoadTMX, gidsToTiles has one entry more than the largest last
\* identifier of the map's tilesets, and its entry 0 is the zeroed 'no tile':
\* no tile is assigned to it
TableLengthAndSentinel ==
    (load.map = "populated" /\ map.tilesets # << >>)
        => /\ map.gidsToTilesLength = MaxLastIdentifier(map.tilesets) + 1
           /\ map.gidsToTilesLength > 0 => map.gidsToTiles.at[0] = ZeroTile

\* C16: in a loaded map the ranges firstGid..lastGid of two tilesets have no
\* identifier in common
RangesAreDisjoint ==
    load.map = "populated"
        => \A i, j \in DOMAIN map.tilesets :
              i < j => (map.tilesets[i].firstGid..map.tilesets[i].lastGid)
                          \cap (map.tilesets[j].firstGid..map.tilesets[j].lastGid) = {}

\* A tileset of tileCount tiles as an editor writes it: a shared image cut in
\* columns, or tileCount tiles with the ids 0, 1, ... and an image each
Complete(tileset) ==
    /\ tileset.tileCount > 0
    /\ IF tileset.hasImage THEN tileset.columns > 0 /\ tileset.image.texture # 0
       ELSE /\ tileset.tilesLength = tileset.tileCount
            /\ \A j \in 1..tileset.tilesLength :
                    /\ tileset.tiles.at[j].id = j - 1
                    /\ tileset.tiles.at[j].hasImage
                    /\ tileset.tiles.at[j].image.texture # 0

\* The texture of the tile of a complete tileset with the local id
TextureOf(tileset, id) ==
    IF tileset.hasImage THEN tileset.image.texture ELSE tileset.tiles.at[id + 1].image.texture

\* C17: with two adjacent tilesets A and B, of firstGid 1 and 1 + A's
\* tileCount, every identifier from 1 to the sum of their tileCounts is an
\* index of gidsToTiles, and the tile there is the tile with that identifier
\* of the one tileset whose range it is in
AdjacentTilesetsResolve ==
    (/\ load.map = "populated"
     /\ map.tilesetsLength = 2
     /\ map.tilesets[1].firstGid = 1
     /\ map.tilesets[2].firstGid = 1 + map.tilesets[1].tileCount
     /\ Complete(map.tilesets[1])
     /\ Complete(map.tilesets[2]))
        => \A gid \in 1..(map.tilesets[1].tileCount + map.tilesets[2].tileCount) :
              /\ gid < map.gidsToTilesLength
              /\ map.gidsToTiles.at[gid].gid = gid
              /\ map.gidsToTiles.at[gid].texture =
                    IF gid < map.tilesets[2].firstGid
                    THEN TextureOf(map.tilesets[1], gid - 1)
                    ELSE TextureOf(map.tilesets[2], gid - map.tilesets[2].firstGid)

(***************************************************************************)
(* The handlers of <properties>, <property>, <objectgroup> and <object>,   *)
(* and the templates of objects.                                           *)
(***************************************************************************)

LAYER_TYPE_OBJECT_GROUP == 1
PROPERTY_TYPE_STRING == 0
PROPERTY_TYPE_INT == 1

\* A property, an object and an object layer as AddProperty, AddObject and
\* AddGenericLayer allocate them
ZeroProperty == [name |-> Null, type |-> PROPERTY_TYPE_STRING, stringValue |-> Null, intValue |-> 0]
ZeroObject ==
    [name |-> Null, typeString |-> Null, templateString |-> Null, gid |-> 0, visible |-> TRUE,
     properties |-> Null, propertiesLength |-> 0]
ZeroObjectGroup ==
    [type |-> LAYER_TYPE_OBJECT_GROUP, objects |-> Null, objectsLength |-> 0,
     properties |-> Null, propertiesLength |-> 0, id |-> 0, parent |-> NULL]

\* HandleElementBegin of <properties>
BeginProperties(state) == [state EXCEPT !.propertiesDepth = @ + 1]

\* HandleElementBegin of <property>: AddProperty
BeginProperty(state) ==
    [state EXCEPT !.properties = Append(SubSeq(@, 1, state.propertiesLength), ZeroProperty),
                  !.propertiesLength = @ + 1,
                  !.property = state.propertiesLength + 1]

\* HandleAttribute of <property>
AttributeOfProperty(state, attribute, value) ==
    IF state.property = NULL THEN state
    ELSE IF attribute = "name"
    THEN [state EXCEPT !.properties[state.property].name = PointerTo(value)]
    ELSE IF attribute = "type"
    THEN IF value = "string"
         THEN [state EXCEPT !.properties[state.property].type = PROPERTY_TYPE_STRING]
         ELSE IF value = "int"
         THEN [state EXCEPT !.properties[state.property].type = PROPERTY_TYPE_INT]
         ELSE state
    ELSE IF attribute = "value"
    THEN [state EXCEPT !.properties[state.property].stringValue = PointerTo(value)]
    ELSE state

\* HandleElementEnd of <property>; content is the element's content, Null for none
EndProperty(state, content) ==
    IF state.property = NULL THEN state
    ELSE Let(state.properties[state.property], LAMBDA property :
         IF property.type = PROPERTY_TYPE_INT
         THEN [state EXCEPT !.properties[state.property].intValue = atoi(property.stringValue.at),
                            !.property = NULL]
         ELSE IF property.stringValue.null
         THEN [state EXCEPT !.properties[state.property].stringValue =
                                IF content.null THEN PointerTo(<< >>) ELSE content,
                            !.property = NULL]
         ELSE [state EXCEPT !.property = NULL])

\* HandleElementEnd of <properties>: the list becomes the array of the
\* innermost element that has none yet
EndProperties(state) ==
    IF state.properties = << >> THEN state
    ELSE IF state.propertiesDepth - 1 > 0 THEN [state EXCEPT !.propertiesDepth = @ - 1]
    ELSE Let(PointerTo(SubSeq(state.properties, 1, state.propertiesLength)), LAMBDA properties :
         Let([state EXCEPT !.propertiesDepth = @ - 1, !.properties = << >>,
                           !.propertiesLength = 0],
             LAMBDA cleared :
         IF state.tilesetTile # NULL /\ state.tilesetTiles[state.tilesetTile].properties.null
         THEN [cleared EXCEPT !.tilesetTiles[state.tilesetTile].properties = properties,
                              !.tilesetTiles[state.tilesetTile].propertiesLength =
                                    state.propertiesLength]
         ELSE IF state.tileset # NULL /\ state.tilesets[state.tileset].properties.null
         THEN [cleared EXCEPT !.tilesets[state.tileset].properties = properties,
                              !.tilesets[state.tileset].propertiesLength = state.propertiesLength]
         ELSE IF state.object # NULL /\ state.objects[state.object].properties.null
         THEN [cleared EXCEPT !.objects[state.object].properties = properties,
                              !.objects[state.object].propertiesLength = state.propertiesLength]
         ELSE IF state.layer # NULL /\ state.layers[state.layer].properties.null
         THEN [cleared EXCEPT !.layers[state.layer].properties = properties,
                              !.layers[state.layer].propertiesLength = state.propertiesLength]
         ELSE [cleared EXCEPT !.mapProperties = properties,
                              !.mapPropertiesLength = state.propertiesLength]))

\* HandleElementBegin of <objectgroup>.  The object group of a tile of a
\* tileset is pointed at by the negated position of the tile
BeginObjectGroup(state) ==
    IF state.tilesetTile # NULL THEN [state EXCEPT !.objectGroup = 0 - state.tilesetTile]
    ELSE [state EXCEPT !.layers = Append(@, [ZeroObjectGroup EXCEPT
                                                !.parent = state.groupNode]),
                       !.layer = Len(state.layers) + 1,
                       !.objectGroup = Len(state.layers) + 1]

\* HandleElementBegin of <object> in a TMX document: AddObject
BeginObject(state) ==
    IF state.objectGroup = NULL THEN state
    ELSE [state EXCEPT !.objects = Append(SubSeq(@, 1, state.objectsLength), ZeroObject),
                       !.objectsLength = @ + 1,
                       !.object = state.objectsLength + 1]

\* HandleAttribute of <object>
AttributeOfObject(state, attribute, value) ==
    IF state.object = NULL THEN state
    ELSE IF attribute = "name" THEN [state EXCEPT !.objects[state.object].name = PointerTo(value)]
    ELSE IF attribute = "type"
    THEN [state EXCEPT !.objects[state.object].typeString = PointerTo(value)]
    ELSE IF attribute = "gid" THEN [state EXCEPT !.objects[state.object].gid = atoi(value)]
    ELSE IF attribute = "visible"
    THEN [state EXCEPT !.objects[state.object].visible = (atoi(value) # 0)]
    ELSE IF attribute = "template"
    THEN [state EXCEPT !.objects[state.object].templateString = PointerTo(value)]
    ELSE state

\* What LoadTX returns for a file that cannot be read
FailedTemplate ==
    [isSuccess |-> FALSE, object |-> ZeroObject, hasTileset |-> FALSE, tileset |-> ZeroTileset]

\* The tileset of a template is one the state has: the names or the sources match
SameTileset(existing, tileset) ==
    \/ ~existing.name.null /\ ~tileset.name.null /\ existing.name.at = tileset.name.at
    \/ ~existing.source.null /\ ~tileset.source.null /\ existing.source.at = tileset.source.at

\* The position in the cache of the template of a file, NULL for none
CachedTemplate(templates, fileName) ==
    IF \E i \in DOMAIN templates : templates[i].fileName = fileName
    THEN CHOOSE i \in DOMAIN templates :
            /\ templates[i].fileName = fileName
            /\ \A j \in 1..(i - 1) : templates[j].fileName # fileName
    ELSE NULL

UnableToLoadTemplate == "Unable to load template"
UnableToApplyTemplate == "Unable to apply template to object"

\* LoadCachedTemplate.  objectTemplate is what LoadTX returns for the file,
\* and 'called' tells whether LoadTX has been called for it.
\* 'returns' is FALSE where the search of the tilesets never ends: the loop
\* does not move on from a first tileset that does not match
LoadCachedTemplate(state, fileName, objectTemplate) ==
    IF CachedTemplate(state.templates, fileName) # NULL
    THEN [state |-> state, cachedTemplate |-> CachedTemplate(state.templates, fileName),
          log |-> {}, returns |-> TRUE, called |-> FALSE]
    ELSE IF ~objectTemplate.isSuccess
    THEN [state |-> state, cachedTemplate |-> NULL, log |-> {UnableToLoadTemplate},
          returns |-> TRUE, called |-> TRUE]
    ELSE IF /\ objectTemplate.hasTileset
            /\ state.tilesets # << >>
            /\ ~SameTileset(state.tilesets[1], objectTemplate.tileset)
    THEN [state |-> state, cachedTemplate |-> NULL, log |-> {}, returns |-> FALSE,
          called |-> TRUE]
    ELSE [state |->
            [state EXCEPT
                !.tilesets = IF objectTemplate.hasTileset /\ state.tilesets = << >>
                             THEN Append(@, objectTemplate.tileset) ELSE @,
                !.templates = Append(@, [fileName |-> fileName,
                                         objectTemplate |-> objectTemplate])],
          cachedTemplate |-> Len(state.templates) + 1, log |-> {}, returns |-> TRUE,
          called |-> TRUE]

\* The properties of an instance followed by those of the template whose name
\* none of the merged properties has yet
RECURSIVE MergedProperties(_, _, _)
MergedProperties(merged, properties, i) ==
    IF i > Len(properties) THEN merged
    ELSE MergedProperties(
            IF \E j \in DOMAIN merged : properties[i].name.at = merged[j].name.at
            THEN merged ELSE Append(merged, properties[i]),
            properties, i + 1)

\* The object once the template of its 'template' attribute has been applied
TemplatedObject(object, template) ==
    [object EXCEPT
        !.name = IF ~template.name.null /\ object.name.null THEN template.name ELSE @,
        !.typeString = IF ~template.typeString.null /\ ~object.typeString.null
                       THEN template.typeString ELSE @,
        !.gid = IF template.gid # 0 /\ object.gid = 0 THEN template.gid ELSE @,
        !.visible = IF ~template.visible /\ object.visible THEN FALSE ELSE @,
        !.properties = IF template.properties.null THEN @
                       ELSE IF object.properties.null THEN template.properties
                       ELSE PointerTo(MergedProperties(
                                SubSeq(object.properties.at, 1, object.propertiesLength),
                                SubSeq(template.properties.at, 1, template.propertiesLength), 1)),
        !.propertiesLength =
                       IF template.properties.null THEN @
                       ELSE IF object.properties.null THEN template.propertiesLength
                       ELSE Len(MergedProperties(
                                SubSeq(object.properties.at, 1, object.propertiesLength),
                                SubSeq(template.properties.at, 1, template.propertiesLength), 1))]

\* The object with the defaults of the attributes the element did not have
DefaultedObject(object) ==
    [object EXCEPT !.name = IF @.null THEN PointerTo("") ELSE @,
                   !.typeString = IF @.null THEN PointerTo("") ELSE @]

\* HandleElementEnd of <object>.  objectTemplate is what LoadTX returns for
\* the file of the object's 'template' attribute
EndObject(state, objectTemplate) ==
    IF state.object = NULL
    THEN [state |-> state, log |-> {}, returns |-> TRUE, called |-> FALSE]
    ELSE Let(DefaultedObject(state.objects[state.object]), LAMBDA object :
         IF object.templateString.null
         THEN [state |-> [state EXCEPT !.objects[state.object] = object, !.object = NULL],
               log |-> {}, returns |-> TRUE, called |-> FALSE]
         ELSE Let(LoadCachedTemplate(state, object.templateString.at, objectTemplate),
                  LAMBDA loaded :
              IF ~loaded.returns
              THEN [state |-> state, log |-> {}, returns |-> FALSE, called |-> loaded.called]
              ELSE IF loaded.cachedTemplate = NULL
              THEN [state |-> [loaded.state EXCEPT !.objects[state.object] = object,
                                                   !.object = NULL],
                    log |-> loaded.log \cup {UnableToApplyTemplate}, returns |-> TRUE,
                    called |-> loaded.called]
              ELSE [state |->
                        [loaded.state EXCEPT
                            !.objects[state.object] =
                                TemplatedObject(object,
                                    loaded.state.templates[loaded.cachedTemplate]
                                        .objectTemplate.object),
                            !.object = NULL],
                    log |-> loaded.log, returns |-> TRUE, called |-> loaded.called]))

\* HandleElementEnd of <objectgroup>
EndObjectGroup(state) ==
    IF state.objectGroup = NULL THEN [state EXCEPT !.layer = NULL]
    ELSE IF state.objects = << >> THEN state
    ELSE Let(PointerTo(SubSeq(state.objects, 1, state.objectsLength)), LAMBDA objects :
         Let([state EXCEPT !.objects = << >>, !.objectsLength = 0,
                           !.objectGroup = NULL, !.layer = NULL],
             LAMBDA cleared :
         IF state.objectGroup < 0
         THEN [cleared EXCEPT
                !.tilesetTiles[0 - state.objectGroup].objectGroup =
                    [objects |-> objects, objectsLength |-> state.objectsLength]]
         ELSE [cleared EXCEPT !.layers[state.objectGroup].objects = objects,
                              !.layers[state.objectGroup].objectsLength = state.objectsLength]))

(***************************************************************************)
(* Specification of the objects of a map.  The documents hold object       *)
(* layers whose objects may name a template, and <properties> elements of  *)
(* the map, of the object layers and of the objects, empty ones included.  *)
(* What the document gave each object is kept in load.objects, and what it *)
(* gave the <properties> of the map in load.mapBlock.                      *)
(***************************************************************************)

\* Bounds of the exploration
MaxObjectGroups == 1
MaxObjects == 2
MaxProperties == 2

\* The names and the values of the properties in the documents: "5" and "7"
PropertyNames == {"hp", "mp"}
PropertyValues == {<<53>>, <<55>>}

\* A property as the end of its element leaves it
StringProperty(name, value) ==
    [ZeroProperty EXCEPT !.name = PointerTo(name), !.stringValue = PointerTo(value)]

\* What LoadTX returns for the files that the 'template' attributes name.
\* hero.tx holds an object with the properties hp="10" and xp="1"; cactus.tx
\* holds <object name="cactus" type="plant" gid="5" visible="0"/>; tree.tx
\* and rock.tx hold an object and the tileset of trees.tsx and of rocks.tsx;
\* empty.tx holds no object; none.tx cannot be read
TemplateFiles == {"hero.tx", "tree.tx", "rock.tx", "none.tx"}
\* What LoadTSX returns for the files that the 'source' attributes name
LoadTSX(fileName) ==
    IF fileName \in {"trees.tsx", "rocks.tsx"}
    THEN [isSuccess |-> TRUE,
          tileset |-> [ZeroTileset EXCEPT
                        !.name = PointerTo(IF fileName = "trees.tsx" THEN "trees" ELSE "rocks"),
                        !.tileCount = 1, !.columns = 1, !.hasImage = TRUE,
                        !.image = [texture |-> 1]]]
    ELSE NoExternalTileset

\* The tileset of a template: <tileset firstgid="1" source="..."/>
TemplateTileset(source) ==
    [LoadTSX(source).tileset EXCEPT !.firstGid = 1, !.source = PointerTo(source)]
LoadTX(fileName) ==
    IF fileName = "hero.tx"
    THEN [isSuccess |-> TRUE,
          object |-> [DefaultedObject(ZeroObject) EXCEPT
                        !.properties = PointerTo(<<StringProperty("hp", <<49, 48>>),
                                                   StringProperty("xp", <<49>>)>>),
                        !.propertiesLength = 2],
          hasTileset |-> FALSE, tileset |-> ZeroTileset]
    ELSE IF fileName = "cactus.tx"
    THEN [isSuccess |-> TRUE,
          object |-> [ZeroObject EXCEPT !.name = PointerTo("cactus"),
                                        !.typeString = PointerTo("plant"),
                                        !.gid = 5, !.visible = FALSE],
          hasTileset |-> FALSE, tileset |-> ZeroTileset]
    ELSE IF fileName = "tree.tx"
    THEN [isSuccess |-> TRUE, object |-> [DefaultedObject(ZeroObject) EXCEPT !.gid = 1],
          hasTileset |-> TRUE, tileset |-> TemplateTileset("trees.tsx")]
    ELSE IF fileName = "rock.tx"
    THEN [isSuccess |-> TRUE, object |-> [DefaultedObject(ZeroObject) EXCEPT !.gid = 1],
          hasTileset |-> TRUE, tileset |-> TemplateTileset("rocks.tsx")]
    ELSE FailedTemplate

\* The attributes the document gave an object, Null for those it did not give
NoAttributes == [name |-> Null, type |-> Null, gid |-> Null, visible |-> Null]

\* The element that holds the innermost open element, "" for the document
Holder == IF Len(load.open) > 1 THEN load.open[Len(load.open) - 1] ELSE ""

InitObjects ==
    /\ doc = << >>
    /\ context = hoxml_init(Uninitialized(0), 4096, MaxBufferLength)
    /\ xml = NULL
    /\ xml_length = 0
    /\ mem = << >>
    /\ fed = << >>
    /\ code = HOXML_ERROR_INVALID_INPUT
    /\ tokens = << >>
    /\ before = context
    /\ call = [did |-> "init", after |-> HOXML_ERROR_INVALID_INPUT, moved |-> FALSE]
    /\ charSigned = FALSE
    /\ load = [pc |-> "parsing", content |-> "text", warned |-> {}, map |-> "none",
               open |-> << >>, head |-> FALSE, given |-> {}, sources |-> << >>,
               objects |-> << >>, had |-> {}, empties |-> 0,
               properties |-> 0, block |-> << >>, mapBlock |-> << >>]
    /\ raytmxState = ZeroState
    /\ map = Null

\* <objectgroup, a layer of the map or the first object group of a <tile>
ObjectGroupBegin ==
    /\ load.pc = "parsing"
    /\ \/ load.open = << >> /\ Len(raytmxState.layers) < MaxObjectGroups
       \/ Inside("tile") /\ raytmxState.objectGroup = NULL
    /\ raytmxState' = BeginObjectGroup(raytmxState)
    /\ load' = Opened("objectgroup")
    /\ UNCHANGED <<hoxmlVars, map>>

\* <object
ObjectBegin ==
    /\ Inside("objectgroup")
    /\ Len(load.objects) < MaxObjects
    /\ raytmxState' = BeginObject(raytmxState)
    /\ load' = [Opened("object") EXCEPT
                    !.objects = Append(@, [template |-> "", properties |-> << >>,
                                           attributes |-> NoAttributes])]
    /\ UNCHANGED <<hoxmlVars, map>>

\* template="..." of the <object>
ObjectAttribute ==
    /\ Inside("object")
    /\ load.head
    /\ Given("template") = ""
    /\ \E value \in TemplateFiles :
            /\ raytmxState' = AttributeOfObject(raytmxState, "template", value)
            /\ load' = [load EXCEPT !.given = @ \cup {<<"template", "given">>},
                                    !.objects[Len(load.objects)].template = value]
    /\ UNCHANGED <<hoxmlVars, map>>

\* <properties of the map, of an object layer, of an object, of a tileset or
\* of a tile of a tileset, the first of the element.  load.block holds what
\* the document gives the open <properties>
PropertiesBegin ==
    /\ load.pc = "parsing"
    /\ \/ load.open \in {<< >>, <<"objectgroup">>}
       \/ Inside("object") \/ Inside("tile") \/ Inside("tileset")
    /\ Len(load.open) \notin load.had
    /\ raytmxState' = BeginProperties(raytmxState)
    /\ load' = [Opened("properties") EXCEPT !.had = @ \cup {Len(load.open)},
                                            !.block = << >>]
    /\ UNCHANGED <<hoxmlVars, map>>

\* <property name="..." value="..."/>, of a name the element has not got yet
Property ==
    /\ Inside("properties")
    /\ load.properties < MaxProperties
    /\ \E name \in PropertyNames, value \in PropertyValues :
            /\ Given(name) = ""
            /\ raytmxState' =
                    EndProperty(
                        AttributeOfProperty(
                            AttributeOfProperty(BeginProperty(raytmxState), "name", name),
                            "value", value),
                        Null)
            /\ load' = [load EXCEPT
                            !.given = @ \cup {<<name, "given">>},
                            !.head = FALSE,
                            !.properties = @ + 1,
                            !.block = Append(@, <<name, value>>),
                            !.mapBlock = IF Holder = "" THEN Append(@, <<name, value>>)
                                         ELSE @,
                            !.objects = IF Holder = "object"
                                        THEN [@ EXCEPT ![Len(@)].properties =
                                                            Append(@, <<name, value>>)]
                                        ELSE @]
    /\ UNCHANGED <<hoxmlVars, map>>

\* </properties>
PropertiesEnd ==
    /\ Inside("properties")
    /\ raytmxState' = EndProperties(raytmxState)
    /\ load' = [Closed EXCEPT !.empties = IF load.given = {} THEN @ + 1 ELSE @]
    /\ UNCHANGED <<hoxmlVars, map>>

\* </object>.  Where LoadCachedTemplate never returns, neither does LoadTMX
ObjectEnd ==
    /\ Inside("object")
    /\ \E handled \in {EndObject(raytmxState, LoadTX(load.objects[Len(load.objects)].template))} :
            IF handled.returns
            THEN /\ raytmxState' = handled.state
                 /\ load' = [Closed EXCEPT !.warned = @ \cup handled.log]
            ELSE /\ raytmxState' = raytmxState
                 /\ load' = [load EXCEPT !.pc = "looping"]
    /\ UNCHANGED <<hoxmlVars, map>>

\* </objectgroup>
ObjectGroupEnd ==
    /\ Inside("objectgroup")
    /\ raytmxState' = EndObjectGroup(raytmxState)
    /\ load' = Closed
    /\ UNCHANGED <<hoxmlVars, map>>

NextObjects ==
    \/ ObjectGroupBegin
    \/ ObjectBegin
    \/ ObjectAttribute
    \/ PropertiesBegin
    \/ Property
    \/ PropertiesEnd
    \/ ObjectEnd
    \/ ObjectGroupEnd
    \/ EndOfDocument

SpecObjects == InitObjects /\ [][NextObjects]_vars

\* The objects of the state in the order of the document: those of the object
\* layers that have ended, then those of the list
RECURSIVE ObjectsOfLayers(_, _)
ObjectsOfLayers(layers, i) ==
    IF i > Len(layers) THEN << >>
    ELSE (IF layers[i].type = LAYER_TYPE_OBJECT_GROUP /\ ~layers[i].objects.null
          THEN SubSeq(layers[i].objects.at, 1, layers[i].objectsLength) ELSE << >>)
            \o ObjectsOfLayers(layers, i + 1)
ObjectsRead ==
    ObjectsOfLayers(raytmxState.layers, 1)
        \o SubSeq(raytmxState.objects, 1, raytmxState.objectsLength)

\* The properties that an object has
PropertiesOf(object) ==
    IF object.properties.null THEN << >>
    ELSE SubSeq(object.properties.at, 1, object.propertiesLength)

\* The objects of the document whose end tag has been read and whose template
\* has been read
Templated ==
    {k \in DOMAIN load.objects :
        /\ k < Len(load.objects) \/ \A i \in DOMAIN load.open : load.open[i] # "object"
        /\ load.objects[k].template # ""
        /\ LoadTX(load.objects[k].template).isSuccess}

\* Exactly one of the properties has the name, and its value is the given one
HasOnce(properties, name, value) ==
    /\ Cardinality({i \in DOMAIN properties : properties[i].name.at = name}) = 1
    /\ \A i \in DOMAIN properties :
            properties[i].name.at = name => properties[i].stringValue = PointerTo(value)

\* The properties are the union by name of those the document gave the
\* object and those of the template, the document's value where both have
\* the name
IsMerged(properties, given, template) ==
    /\ \A i \in DOMAIN given : HasOnce(properties, given[i][1], given[i][2])
    /\ \A i \in DOMAIN template :
            (\A j \in DOMAIN given : given[j][1] # template[i].name.at)
                => HasOnce(properties, template[i].name.at, template[i].stringValue.at)
    /\ \A i \in DOMAIN properties :
            \/ \E j \in DOMAIN given : given[j][1] = properties[i].name.at
            \/ \E j \in DOMAIN template : template[j].name.at = properties[i].name.at

\* C20: an object that names a template ends with the union by name of the
\* template's properties and its own, each name once, and with its own value
\* wherever both define the name: hp="5" of the instance wins over hp="10"
\* of the template
InstanceWinsMerge ==
    \A k \in Templated :
        IsMerged(PropertiesOf(ObjectsRead[k]), load.objects[k].properties,
                 PropertiesOf(LoadTX(load.objects[k].template).object))

(***************************************************************************)
(* Specification of the objects that name a template: the documents give   *)
(* the objects of one object layer the attributes name, type, gid, visible *)
(* and template, in any order.                                             *)
(***************************************************************************)

\* The values of the attributes of the objects in the documents: gid="2",
\* visible="1"
ScalarValues ==
    [name |-> {"oak"}, type |-> {"tree"}, gid |-> {<<50>>}, visible |-> {<<49>>}]
ScalarTemplates == {"cactus.tx", "hero.tx"}

\* name="...", type="...", gid="..." or visible="..." of the <object>
ObjectScalar ==
    /\ Inside("object")
    /\ load.head
    /\ \E attribute \in DOMAIN ScalarValues :
            /\ Given(attribute) = ""
            /\ \E value \in ScalarValues[attribute] :
                    /\ raytmxState' = AttributeOfObject(raytmxState, attribute, value)
                    /\ load' = [load EXCEPT
                                    !.given = @ \cup {<<attribute, "given">>},
                                    !.objects[Len(load.objects)].attributes[attribute] =
                                        PointerTo(value)]
    /\ UNCHANGED <<hoxmlVars, map>>

\* template="..." of the <object>, of the files with scalar fields
ObjectTemplate ==
    /\ Inside("object")
    /\ load.head
    /\ Given("template") = ""
    /\ \E value \in ScalarTemplates :
            /\ raytmxState' = AttributeOfObject(raytmxState, "template", value)
            /\ load' = [load EXCEPT !.given = @ \cup {<<"template", "given">>},
                                    !.objects[Len(load.objects)].template = value]
    /\ UNCHANGED <<hoxmlVars, map>>

NextTemplates ==
    \/ ObjectGroupBegin
    \/ ObjectBegin
    \/ ObjectScalar
    \/ ObjectTemplate
    \/ ObjectEnd
    \/ ObjectGroupEnd
    \/ EndOfDocument

SpecTemplates == InitObjects /\ [][NextTemplates]_vars

\* The object has the scalar fields that the document gave it, and those of
\* the template where the document gave none
HasScalars(object, attributes, template) ==
    /\ object.name = IF attributes.name.null THEN template.name ELSE attributes.name
    /\ object.typeString =
            IF attributes.type.null THEN template.typeString ELSE attributes.type
    /\ object.gid = IF attributes.gid.null THEN template.gid ELSE atoi(attributes.gid.at)
    /\ object.visible =
            IF attributes.visible.null THEN template.visible
            ELSE atoi(attributes.visible.at) # 0

\* C21: an object that names a template has the template's value in every
\* scalar field that the document did not give it, and the document's value in
\* every field that it gave
ScalarsFromTemplate ==
    \A k \in Templated :
        HasScalars(ObjectsRead[k], load.objects[k].attributes,
                   LoadTX(load.objects[k].template).object)

(***************************************************************************)
(* Specification of the external documents of a map: the tilesets that a   *)
(* 'source' names and the templates that the objects name.  load.parsed    *)
(* holds the documents that ParseDocument has read, in the order of the    *)
(* calls.                                                                  *)
(***************************************************************************)

ExternalTilesets == {"trees.tsx", "rocks.tsx"}
ExternalTemplates == {"tree.tx", "hero.tx", "empty.tx", "none.tx"}

\* The documents that ParseDocument reads while LoadTX or LoadTSX loads the
\* file: the file, unless it cannot be read, and the tileset that it names
DocumentsOf(fileName) ==
    IF fileName = "none.tx" THEN << >>
    ELSE IF fileName = "tree.tx" THEN <<"tree.tx", "trees.tsx">>
    ELSE IF fileName = "rock.tx" THEN <<"rock.tx", "rocks.tsx">>
    ELSE <<fileName>>

InitExternal ==
    /\ doc = << >>
    /\ context = hoxml_init(Uninitialized(0), 4096, MaxBufferLength)
    /\ xml = NULL
    /\ xml_length = 0
    /\ mem = << >>
    /\ fed = << >>
    /\ code = HOXML_ERROR_INVALID_INPUT
    /\ tokens = << >>
    /\ before = context
    /\ call = [did |-> "init", after |-> HOXML_ERROR_INVALID_INPUT, moved |-> FALSE]
    /\ charSigned = FALSE
    /\ load = [pc |-> "parsing", content |-> "text", warned |-> {}, map |-> "none",
               open |-> << >>, head |-> FALSE, given |-> {}, sources |-> << >>,
               had |-> {}, parsed |-> << >>, cached |-> 0]
    /\ raytmxState = ZeroState
    /\ map = Null

\* <tileset firstgid="..." source="..."/>
ExternalTileset ==
    /\ load.pc = "parsing"
    /\ load.open = << >>
    /\ Len(raytmxState.tilesets) < MaxTilesets
    /\ \E firstgid \in FirstGidValues, source \in ExternalTilesets :
            /\ raytmxState' =
                    EndTileset(
                        AttributeOfTileset(
                            AttributeOfTileset(BeginTileset(raytmxState),
                                               "firstgid", firstgid, NoExternalTileset),
                            "source", source, LoadTSX(source)))
            /\ load' = [load EXCEPT !.parsed = @ \o DocumentsOf(source)]
    /\ UNCHANGED <<hoxmlVars, map>>

\* <object template="..."/>
TemplateObject ==
    /\ Inside("objectgroup")
    /\ raytmxState.objectsLength < MaxObjects
    /\ \E template \in ExternalTemplates :
       \E handled \in {EndObject(AttributeOfObject(BeginObject(raytmxState),
                                                   "template", template),
                                 LoadTX(template))} :
            /\ raytmxState' = IF handled.returns THEN handled.state ELSE raytmxState
            /\ load' = [load EXCEPT
                            !.head = FALSE,
                            !.pc = IF handled.returns THEN @ ELSE "looping",
                            !.warned = @ \cup handled.log,
                            !.cached = IF handled.called THEN @ ELSE @ + 1,
                            !.parsed = IF handled.called THEN @ \o DocumentsOf(template)
                                       ELSE @]
    /\ UNCHANGED <<hoxmlVars, map>>

NextExternal ==
    \/ ExternalTileset
    \/ ObjectGroupBegin
    \/ TemplateObject
    \/ ObjectGroupEnd
    \/ EndOfDocument

SpecExternal == InitExternal /\ [][NextExternal]_vars

\* C22: while LoadTMX loads a map, no external document, tileset or template,
\* is parsed more than once, however many elements name it
ParsedAtMostOnce ==
    \A i, j \in DOMAIN load.parsed : load.parsed[i] = load.parsed[j] => i = j

(***************************************************************************)
(* Specification of the owners of the properties: the documents hold       *)
(* <properties> in the map, in object layers and their objects, and in     *)
(* tilesets, their tiles and the objects of the tiles' object groups.      *)
(***************************************************************************)

\* <tileset, the only one of the map and before the layers
OwnersTileset ==
    /\ raytmxState.tilesets = << >>
    /\ raytmxState.layers = << >>
    /\ TilesetBegin

\* <tile, the only one of the tileset
OwnersTile ==
    /\ raytmxState.tilesetTilesLength = 0
    /\ TileBegin

\* <object, the only one of its object group
OwnersObject ==
    /\ raytmxState.objectsLength = 0
    /\ ObjectBegin

\* <properties, before the other elements that its element holds
OwnersProperties ==
    /\ IF load.open = << >>
       THEN raytmxState.tilesets = << >> /\ raytmxState.layers = << >>
       ELSE load.head
    /\ PropertiesBegin

NextOwners ==
    \/ OwnersTileset
    \/ OwnersTile
    \/ TileEnd
    \/ TilesetEnd
    \/ ObjectGroupBegin
    \/ OwnersObject
    \/ ObjectEnd
    \/ ObjectGroupEnd
    \/ OwnersProperties
    \/ Property
    \/ PropertiesEnd
    \/ EndOfDocument

SpecOwners == InitObjects /\ [][NextOwners]_vars

\* The array of properties of the element that an open <properties> is in:
\* of the object, tile, tileset or layer that was begun last, or of the map
OwnerProperties(state, holder) ==
    IF holder = "object" THEN state.objects[state.objectsLength].properties
    ELSE IF holder = "tile" THEN state.tilesetTiles[state.tilesetTilesLength].properties
    ELSE IF holder = "tileset" THEN state.tilesets[Len(state.tilesets)].properties
    ELSE IF holder = "objectgroup" THEN state.layers[Len(state.layers)].properties
    ELSE state.mapProperties

\* The array that holds what the document gave a <properties>, none for an
\* empty one
BlockProperties(block) ==
    IF block = << >> THEN Null
    ELSE PointerTo([i \in DOMAIN block |-> StringProperty(block[i][1], block[i][2])])

\* C23: when a <properties> ends, the properties it held are the array of the
\* element that the <properties> is directly in, and the list of the state
\* is empty
FlattenedToOwner ==
    [][(Inside("properties") /\ load'.open = SubSeq(load.open, 1, Len(load.open) - 1))
        => /\ raytmxState'.properties = << >>
           /\ raytmxState'.propertiesLength = 0
           /\ OwnerProperties(raytmxState', Holder) = BlockProperties(load.block)]_vars

\* C24: the map that LoadTMX returns holds, in 'properties' and
\* 'propertiesLength', the properties of the <properties> of its <map>
MapPropertiesKept ==
    load.map = "populated"
        => /\ map.properties = BlockProperties(load.mapBlock)
           /\ map.propertiesLength = Len(load.mapBlock)

(***************************************************************************)
(* The group layers, and the specification of the tree of layers: the      *)
(* documents nest <group> elements and hold <layer> and <objectgroup>      *)
(* elements in them and in the map.  Each layer has the 'id' of its        *)
(* position in the document; load.parents holds, for each, the 'id' of the *)
(* group element it is directly in, 0 for the map, and load.path the 'id's *)
(* of the open groups.                                                     *)
(***************************************************************************)

LAYER_TYPE_GROUP == 3

\* A group layer as AddGenericLayer allocates it and HandleElementBegin types it
ZeroGroup ==
    [type |-> LAYER_TYPE_GROUP, layers |-> Null, layersLength |-> 0,
     properties |-> Null, propertiesLength |-> 0, id |-> 0, parent |-> NULL]

\* HandleElementBegin of <group>
BeginGroup(state) ==
    [state EXCEPT !.layers = Append(@, [ZeroGroup EXCEPT !.parent = state.groupNode]),
                  !.layer = Len(state.layers) + 1,
                  !.groupNode = Len(state.layers) + 1]

\* HandleAttribute of the attributes that the kinds of layers share
AttributeOfAnyLayer(state, attribute, value) ==
    IF state.layer = NULL THEN state
    ELSE IF attribute = "id" THEN [state EXCEPT !.layers[state.layer].id = atoi(value)]
    ELSE state

\* A </group> that leaves the open group open
KeepGroup(state) == state

\* HandleElementEnd of <group>: back to the group that holds it
EndGroup(state) ==
    IF state.groupNode = NULL THEN state
    ELSE [state EXCEPT !.groupNode = state.layers[state.groupNode].parent]

\* Bounds of the exploration
MaxTreeLayers == 4
MaxTreeDepth == 2

\* The digit of an 'id'
IdValue(id) == <<48 + id>>

InitGroups ==
    /\ doc = << >>
    /\ context = hoxml_init(Uninitialized(0), 4096, MaxBufferLength)
    /\ xml = NULL
    /\ xml_length = 0
    /\ mem = << >>
    /\ fed = << >>
    /\ code = HOXML_ERROR_INVALID_INPUT
    /\ tokens = << >>
    /\ before = context
    /\ call = [did |-> "init", after |-> HOXML_ERROR_INVALID_INPUT, moved |-> FALSE]
    /\ charSigned = FALSE
    /\ load = [pc |-> "parsing", content |-> "text", warned |-> {}, map |-> "none",
               open |-> << >>, head |-> FALSE, given |-> {}, sources |-> << >>,
               parents |-> << >>, path |-> << >>]
    /\ raytmxState = ZeroState
    /\ map = Null

\* The document is being read and holds room for one more layer here
TreeOpen ==
    /\ load.pc = "parsing"
    /\ \A i \in DOMAIN load.open : load.open[i] = "group"
    /\ Len(load.parents) < MaxTreeLayers

\* load once a layer has begun here
Nested ==
    [load EXCEPT !.parents = Append(@, IF load.path = << >> THEN 0
                                       ELSE load.path[Len(load.path)])]

\* <group id="...">
GroupBegin ==
    /\ TreeOpen
    /\ Len(load.open) < MaxTreeDepth
    /\ raytmxState' = AttributeOfAnyLayer(BeginGroup(raytmxState), "id",
                                          IdValue(Len(load.parents) + 1))
    /\ load' = [Nested EXCEPT !.open = Append(@, "group"),
                              !.path = Append(@, Len(load.parents) + 1)]
    /\ UNCHANGED <<hoxmlVars, map>>

\* <layer id="..."/>
GroupLayer ==
    /\ TreeOpen
    /\ raytmxState' = EndLayer(AttributeOfAnyLayer(BeginLayer(raytmxState), "id",
                                                   IdValue(Len(load.parents) + 1))).state
    /\ load' = Nested
    /\ UNCHANGED <<hoxmlVars, map>>

\* <objectgroup id="..."/>
GroupObjectGroup ==
    /\ TreeOpen
    /\ raytmxState' = EndObjectGroup(AttributeOfAnyLayer(BeginObjectGroup(raytmxState), "id",
                                                         IdValue(Len(load.parents) + 1)))
    /\ load' = Nested
    /\ UNCHANGED <<hoxmlVars, map>>

\* </group>
GroupEnd ==
    /\ Inside("group")
    /\ raytmxState' = EndGroup(raytmxState)
    /\ load' = [load EXCEPT !.open = SubSeq(@, 1, Len(@) - 1),
                            !.path = SubSeq(@, 1, Len(@) - 1)]
    /\ UNCHANGED <<hoxmlVars, map>>

NextGroups ==
    \/ GroupBegin
    \/ GroupLayer
    \/ GroupObjectGroup
    \/ GroupEnd
    \/ EndOfDocument

SpecGroups == InitGroups /\ [][NextGroups]_vars

\* The 'id's of an array of layers, each with those of the array of its own
RECURSIVE IdsOf(_)
IdsOf(layers) ==
    [k \in DOMAIN layers |->
        [id |-> layers[k].id,
         layers |-> IF layers[k].type = LAYER_TYPE_GROUP /\ ~layers[k].layers.null
                    THEN IdsOf(SubSeq(layers[k].layers.at, 1, layers[k].layersLength))
                    ELSE << >>]]

\* The 'id's of the layers that the document holds directly in a group, or in
\* the map for 0, in the order of the document, each with those it holds
RECURSIVE DocumentFrom(_, _, _)
DocumentFrom(parents, group, i) ==
    IF i > Len(parents) THEN << >>
    ELSE (IF parents[i] = group
          THEN <<[id |-> i, layers |-> DocumentFrom(parents, i, i + 1)]>> ELSE << >>)
            \o DocumentFrom(parents, group, i + 1)

\* C25: in the map that LoadTMX returns every layer of the document is once
\* in the array of the group that it is directly in, or in the array of the
\* map when it is in no group, and the layers of an array are in the order
\* of the document
LayersOnceInOrder ==
    load.map = "populated"
        => /\ IdsOf(map.layers) = DocumentFrom(load.parents, 0, 1)
           /\ map.layersLength = Len(map.layers)

\* A map with a layer in a group that is in a group, and a layer of the map
\* after them
NestedGroupsLoaded ==
    /\ load.map = "populated"
    /\ load.parents = <<0, 1, 2, 0>>
    /\ map.layers[1].layers.at[1].layers.at[1].id = 3
    /\ map.layers[2].id = 4

(***************************************************************************)
(* The cache of textures, UnloadTMX, and the specification of the          *)
(* resources of a map: the documents hold tilesets and tiles whose         *)
(* <image> elements name files, the same file more than once included, and *)
(* the map that LoadTMX returns is unloaded.  load.unloaded holds the      *)
(* textures given to UnloadTexture and load.freed the arrays given to      *)
(* MemFree, in the order of the calls.                                     *)
(***************************************************************************)

\* LoadCachedTexture.  texture is what LoadTexture returns for the file, 0
\* where it fails
LoadCachedTexture(state, fileName, texture) ==
    IF \E i \in DOMAIN state.textures : state.textures[i].fileName = fileName
    THEN [state |-> state,
          cachedTexture |->
            PointerTo(state.textures[CHOOSE i \in DOMAIN state.textures :
                                        state.textures[i].fileName = fileName].texture)]
    ELSE IF texture = 0 THEN [state |-> state, cachedTexture |-> Null]
    ELSE [state |-> [state EXCEPT !.textures = Append(@, [fileName |-> fileName,
                                                          texture |-> texture])],
          cachedTexture |-> PointerTo(texture)]

\* The textures that FreeTileset gives to UnloadTexture, in the order of the calls
RECURSIVE TexturesOfTiles(_, _)
TexturesOfTiles(tiles, i) ==
    IF i > Len(tiles) THEN << >>
    ELSE (IF tiles[i].hasImage THEN <<tiles[i].image.texture>> ELSE << >>)
            \o TexturesOfTiles(tiles, i + 1)
FreeTileset(tileset) ==
    (IF tileset.hasImage THEN <<tileset.image.texture>> ELSE << >>)
        \o (IF tileset.tilesLength = 0 THEN << >>
            ELSE TexturesOfTiles(SubSeq(tileset.tiles.at, 1, tileset.tilesLength), 1))

\* UnloadTMX: the textures given to UnloadTexture and the arrays given to
\* MemFree.  The arrays of a map are named by what holds them: "tilesets",
\* "layers" and "gidsToTiles" of the map, and "tiles" of its i-th tileset
RECURSIVE TexturesOfTilesets(_, _)
TexturesOfTilesets(tilesets, i) ==
    IF i > Len(tilesets) THEN << >>
    ELSE FreeTileset(tilesets[i]) \o TexturesOfTilesets(tilesets, i + 1)
UnloadTMX(loaded) ==
    [unloaded |-> TexturesOfTilesets(loaded.tilesets, 1),
     freed |-> (IF loaded.tilesets # << >> THEN <<<<"tilesets", 0>>>> ELSE << >>)
                \o (IF loaded.layers # << >> THEN <<<<"layers", 0>>>> ELSE << >>)
                \o (IF ~loaded.gidsToTiles.null THEN <<<<"gidsToTiles", 0>>>> ELSE << >>)]

\* The image files that the documents name
ImageFiles == {"a.png", "b.png"}

InitUnload ==
    /\ doc = << >>
    /\ context = hoxml_init(Uninitialized(0), 4096, MaxBufferLength)
    /\ xml = NULL
    /\ xml_length = 0
    /\ mem = << >>
    /\ fed = << >>
    /\ code = HOXML_ERROR_INVALID_INPUT
    /\ tokens = << >>
    /\ before = context
    /\ call = [did |-> "init", after |-> HOXML_ERROR_INVALID_INPUT, moved |-> FALSE]
    /\ charSigned = FALSE
    /\ load = [pc |-> "parsing", content |-> "text", warned |-> {}, map |-> "none",
               open |-> << >>, head |-> FALSE, given |-> {}, sources |-> << >>,
               unloaded |-> << >>, freed |-> << >>]
    /\ raytmxState = ZeroState
    /\ map = Null

\* <image source="..."/>, the first in a <tileset> or in a <tile> of it.
\* LoadTexture gives each file it loads another texture; the attribute is
\* skipped where BeginImage has left no image to read into
CachedImage ==
    /\ \/ Inside("tileset") /\ ~raytmxState.tilesets[raytmxState.tileset].hasImage
       \/ Inside("tile") /\ ~raytmxState.tilesetTiles[raytmxState.tilesetTile].hasImage
    /\ \E fileName \in ImageFiles :
       \E begun \in {BeginImage(raytmxState)} :
       \E cached \in {IF begun.state.image = NULL
                       THEN [state |-> begun.state, cachedTexture |-> Null]
                       ELSE LoadCachedTexture(begun.state, fileName,
                                              Len(raytmxState.textures) + 1)} :
            /\ raytmxState' = EndImage(AttributeOfImage(cached.state, "source",
                                                        cached.cachedTexture))
            /\ load' = [load EXCEPT !.head = FALSE, !.warned = @ \cup begun.log]
    /\ UNCHANGED <<hoxmlVars, map>>

\* UnloadTMX of the map that LoadTMX returned
Unload ==
    /\ load.pc = "done"
    /\ load.map = "populated"
    /\ load' = [load EXCEPT !.pc = "unloaded",
                            !.unloaded = UnloadTMX(map).unloaded,
                            !.freed = UnloadTMX(map).freed]
    /\ UNCHANGED <<hoxmlVars, raytmxState, map>>

NextUnload ==
    \/ TilesetBegin
    \/ CachedImage
    \/ TileBegin
    \/ TileEnd
    \/ TilesetEnd
    \/ EndOfDocument
    \/ Unload

SpecUnload == InitUnload /\ [][NextUnload]_vars

\* The textures and the arrays that a map owns
OwnedTextures(loaded) ==
    {loaded.tilesets[i].image.texture :
        i \in {i \in DOMAIN loaded.tilesets : loaded.tilesets[i].hasImage}}
    \cup UNION {{loaded.tilesets[i].tiles.at[j].image.texture :
                    j \in {j \in 1..loaded.tilesets[i].tilesLength :
                            loaded.tilesets[i].tiles.at[j].hasImage}} :
                i \in DOMAIN loaded.tilesets}
OwnedArrays(loaded) ==
    (IF loaded.tilesets # << >> THEN {<<"tilesets", 0>>} ELSE {})
    \cup (IF loaded.layers # << >> THEN {<<"layers", 0>>} ELSE {})
    \cup (IF ~loaded.gidsToTiles.null THEN {<<"gidsToTiles", 0>>} ELSE {})
    \cup {<<"tiles", i>> : i \in {i \in DOMAIN loaded.tilesets :
                                    ~loaded.tilesets[i].tiles.null}}

\* The number of times a sequence holds a value
Times(seq, value) == Cardinality({i \in DOMAIN seq : seq[i] = value})

\* C26: once UnloadTMX has returned, every texture and every array that the
\* map owned has been released exactly once, also where tilesets or tiles
\* name the same image file
ReleasedExactlyOnce ==
    load.pc = "unloaded"
        => /\ \A texture \in OwnedTextures(map) : Times(load.unloaded, texture) = 1
           /\ \A array \in OwnedArrays(map) : Times(load.freed, array) = 1

(***************************************************************************)
(* Specification of references: an element <a> whose content, or whose     *)
(* attribute x, is made of at most MaxReferenceItems letters and           *)
(* references, in UTF-8 and without a byte order mark, handed over one     *)
(* byte at a time.  The call that is handed the ';' of a reference runs    *)
(* hoxml_end_reference and then finds the chunk used up, so 'before' is    *)
(* the context as hoxml_end_reference left it.                             *)
(***************************************************************************)
MaxReferenceItems == 2

\* The references of the documents: their text between '&' and ';' and the
\* character they stand for
References ==
    {[text |-> <<108, 116>>, codepoint |-> 60],                \* &lt;
     [text |-> <<103, 116>>, codepoint |-> 62],                \* &gt;
     [text |-> <<97, 109, 112>>, codepoint |-> 38],            \* &amp;
     [text |-> <<97, 112, 111, 115>>, codepoint |-> 39],       \* &apos;
     [text |-> <<113, 117, 111, 116>>, codepoint |-> 34],      \* &quot;
     [text |-> <<35, 54, 53>>, codepoint |-> 65],              \* &#65;
     [text |-> <<35, 120, 52, 49>>, codepoint |-> 65],         \* &#x41;
     [text |-> <<35, 120, 65, 57>>, codepoint |-> 169],        \* &#xA9;
     [text |-> <<35, 50, 51, 51>>, codepoint |-> 233]}         \* &#233;

ReferenceItems == {<<116>>} \cup {<<38>> \o r.text \o <<59>> : r \in References}

RECURSIVE Strung(_, _)
Strung(items, n) ==
    IF n = 0 THEN {<< >>}
    ELSE Let(Strung(items, n - 1), LAMBDA shorter :
            shorter \cup {s \o item : s \in {e \in shorter : e = << >> \/ n > 1},
                                      item \in items})

\* <a>...</a> and <a x="..."/>
ReferenceDocuments ==
    {<<OpenA, Text(s), CloseA>> : s \in Strung(ReferenceItems, MaxReferenceItems) \ {<< >>}}
    \cup {<<Piece(<<60, 97, 32, 120, 61, 34>> \o s \o <<34, 47, 62>>, "other", << >>, << >>)>> :
            s \in Strung(ReferenceItems, MaxReferenceItems) \ {<< >>}}

InitReference == InitWith(MaxBufferLength, ReferenceDocuments)

NextReference ==
    \/ ParseAgain
    \/ FeedNew(1)

SpecReference == InitReference /\ [][NextReference]_vars

\* The character of a code point below U+0800 in UTF-8
Utf8(codepoint) ==
    IF codepoint < 128 THEN <<codepoint>>
    ELSE <<192 + (codepoint \div 64), 128 + (codepoint % 64)>>

\* The index of the first byte of a string that is the byte given
First(str, byte) == CHOOSE i \in DOMAIN str : str[i] = byte /\ \A j \in 1..(i - 1) : str[j] # byte

\* A string of the documents with each of its references replaced by the
\* character the reference stands for
RECURSIVE Dereferenced(_)
Dereferenced(str) ==
    IF str = << >> THEN << >>
    ELSE IF str[1] # 38 THEN <<str[1]>> \o Dereferenced(Tail(str))
    ELSE Utf8((CHOOSE r \in References :
                    r.text = SubSeq(str, 2, First(str, 59) - 1)).codepoint)
            \o Dereferenced(Drop(str, First(str, 59)))

\* Of the bytes handed over, those of the attribute value or of the content
\* being read
InValue(bytes) == \E i \in DOMAIN bytes : bytes[i] = 34
StringFed(bytes) ==
    IF InValue(bytes) THEN Drop(bytes, First(bytes, 34)) ELSE Drop(bytes, First(bytes, 62))

\* The string that the head frame of the buffer ends with: what follows the
\* last terminator
Written(ctx) ==
    LET data == HOXML_STACK(ctx).data
        nuls == {i \in DOMAIN data : data[i] = 0}
    IN  IF nuls = {} THEN data
        ELSE Drop(data, CHOOSE i \in nuls : \A j \in nuls : j <= i)

\* The state a call left off in when it found its chunk used up
Pending(ctx) ==
    IF ctx.state = HOXML_STATE_ERROR_UNEXPECTED_EOF THEN ctx.error_return_state
    ELSE ctx.state

\* The call is handed the ';' that closes a reference
ClosesReference ==
    /\ call'.did = "new"
    /\ mem' = <<59>>
    /\ Pending(context) \in {HOXML_STATE_REFERENCE_ENTITY, HOXML_STATE_REFERENCE_NUMERIC,
                             HOXML_STATE_REFERENCE_HEX}

\* C27: when ';' closes a reference in an attribute value or in content, the
\* text of the reference in the buffer has given way to exactly the character
\* it stands for, after what the string held before, and the parser is in the
\* state it was in before the reference: attribute value or content
ReferenceReplaced ==
    [][ClosesReference
        => /\ code' = HOXML_ERROR_UNEXPECTED_EOF
           /\ before'.stack # NULL
           /\ Written(before') = Dereferenced(StringFed(fed'))
           /\ before'.state = (IF InValue(fed') THEN HOXML_STATE_ATTRIBUTE_VALUE
                               ELSE HOXML_STATE_OPEN_TAG)]_vars

(***************************************************************************)
(* Specification of CDATA sections: an element <a> whose content is an     *)
(* optional letter, one CDATA section of at most MaxCdataLength            *)
(* characters and an optional letter, in UTF-8, handed over in one piece   *)
(***************************************************************************)
MaxCdataLength == 3

\* The characters of the sections: t ] < & >
CdataCharacters == {<<116>>, <<93>>, <<60>>, <<38>>, <<62>>}

\* The texts a section can hold: those that do not contain ]]>
CdataTexts ==
    {s \in Strung(CdataCharacters, MaxCdataLength) :
        \A i \in 1..(Len(s) - 2) : SubSeq(s, i, i + 2) # <<93, 93, 62>>}

\* <![CDATA[ ... ]]>
CdataSection(text) ==
    Other(<<60, 33, 91, 67, 68, 65, 84, 65, 91>> \o text \o <<93, 93, 62>>)
CdataText(section) == SubSeq(section.bytes, 10, Len(section.bytes) - 3)

CdataDocuments ==
    {<<OpenA, Text(pre), CdataSection(text), Text(post), CloseA>> :
        pre \in {<< >>, <<116>>}, text \in CdataTexts, post \in {<< >>, <<116>>}}

InitCdata == InitWith(MaxBufferLength, CdataDocuments)

SpecCdata == InitCdata /\ [][Next]_vars

\* C28: the content of the element is what it held before the section, then
\* exactly the characters between <![CDATA[ and the closing ]]>, then what
\* follows the section
CdataVerbatim ==
    RunEnded
        => /\ ~context.ub
           /\ code = HOXML_END_OF_DOCUMENT
           /\ Texts(tokens) =
                <<[code |-> HOXML_ELEMENT_BEGIN, tag |-> <<97>>, attribute |-> << >>,
                   value |-> << >>, content |-> << >>],
                  [code |-> HOXML_ELEMENT_END, tag |-> <<97>>, attribute |-> << >>,
                   value |-> << >>,
                   content |-> doc[2].bytes \o CdataText(doc[3]) \o doc[4].bytes]>>

(***************************************************************************)
(* Specification of the decoders of tile data: an array of at most         *)
(* MaxIdentifiers identifiers is written as the content of a <data> in     *)
(* each of the three ways Tiled writes it, and each content is read by     *)
(* the handlers of a <layer> with that <data>.  load.decoded holds, for    *)
(* the encodings read so far, the array the layer ended with.              *)
(***************************************************************************)
MaxIdentifiers == 2

\* The identifiers: two tiles, and the first of them flipped horizontally,
\* 0x80000001
Identifiers == {1, 2, 1 - 2147483647 - 1}

\* The decimal digits of an unsigned 32-bit integer
RECURSIVE Decimal(_)
Decimal(value) ==
    IF value >= 0
    THEN (IF value >= 10 THEN Decimal(value \div 10) ELSE << >>) \o <<48 + (value % 10)>>
    ELSE LET hi == (value \div 65536) + 65536
             lo == value % 65536
             rest == (hi % 10) * 65536 + lo
         IN  Decimal((hi \div 10) * 65536 + (rest \div 10)) \o <<48 + (rest % 10)>>

\* The bytes of unsigned 32-bit integers, the low byte first
RECURSIVE BytesOf(_)
BytesOf(ids) ==
    IF ids = << >> THEN << >>
    ELSE <<Head(ids) % 256, (Head(ids) \div 256) % 256, (Head(ids) \div 65536) % 256,
           (Head(ids) \div 16777216) % 256>> \o BytesOf(Tail(ids))

\* Base64: the character of six bits and the six bits of a character
Base64Character(bits) ==
    IF bits < 26 THEN 65 + bits
    ELSE IF bits < 52 THEN 97 + (bits - 26)
    ELSE IF bits < 62 THEN 48 + (bits - 52)
    ELSE IF bits = 62 THEN 43 ELSE 47
Base64Bits(character) ==
    IF character >= 65 /\ character <= 90 THEN character - 65
    ELSE IF character >= 97 /\ character <= 122 THEN character - 97 + 26
    ELSE IF character >= 48 /\ character <= 57 THEN character - 48 + 52
    ELSE IF character = 43 THEN 62
    ELSE IF character = 47 THEN 63 ELSE 0

RECURSIVE EncodeBase64(_)
EncodeBase64(bytes) ==
    IF bytes = << >> THEN << >>
    ELSE <<Base64Character(bytes[1] \div 4),
           Base64Character((bytes[1] % 4) * 16 + At(bytes, 1) \div 16),
           IF Len(bytes) < 2 THEN 61
           ELSE Base64Character((bytes[2] % 16) * 4 + At(bytes, 2) \div 64),
           IF Len(bytes) < 3 THEN 61 ELSE Base64Character(bytes[3] % 64)>>
         \o EncodeBase64(Drop(bytes, 3))

\* raylib's DecodeDataBase64: the bytes that the text stands for
RECURSIVE DecodeBase64(_)
DecodeBase64(text) ==
    IF Len(text) < 4 THEN << >>
    ELSE <<Base64Bits(text[1]) * 4 + Base64Bits(text[2]) \div 16>>
         \o (IF text[3] = 61 THEN << >>
             ELSE <<(Base64Bits(text[2]) % 16) * 16 + Base64Bits(text[3]) \div 4>>)
         \o (IF text[3] = 61 \/ text[4] = 61 THEN << >>
             ELSE <<(Base64Bits(text[3]) % 4) * 64 + Base64Bits(text[4])>>)
         \o DecodeBase64(Drop(text, 4))
DecodeDataBase64(text) == PointerTo(DecodeBase64(text))

\* The Adler-32 checksum that ends a zlib stream, the high byte first
RECURSIVE Adler(_, _, _)
Adler(bytes, a, b) ==
    IF bytes = << >> THEN <<b \div 256, b % 256, a \div 256, a % 256>>
    ELSE Adler(Tail(bytes), (a + Head(bytes)) % 65521,
               (b + ((a + Head(bytes)) % 65521)) % 65521)

\* A zlib stream of the bytes: the header, one stored block that is the last,
\* and the checksum
ZlibStream(bytes) ==
    <<120, 1>>
        \o <<1, Len(bytes) % 256, Len(bytes) \div 256,
             255 - (Len(bytes) % 256), 255 - (Len(bytes) \div 256)>>
        \o bytes \o Adler(bytes, 1, 0)

\* raylib's DecompressData on a DEFLATE stream that is one stored block
DecompressData(compData) ==
    IF Len(compData) >= 5 /\ compData[1] = 1
            /\ compData[4] = 255 - compData[2] /\ compData[5] = 255 - compData[3]
            /\ Len(compData) >= 5 + compData[2] + 256 * compData[3]
    THEN PointerTo(SubSeq(compData, 6, 5 + compData[2] + 256 * compData[3]))
    ELSE Null

\* The content of a <data> as Tiled writes it, between line feeds
RECURSIVE Separated(_)
Separated(ids) ==
    IF ids = << >> THEN << >>
    ELSE Decimal(Head(ids)) \o (IF Len(ids) > 1 THEN <<44>> ELSE << >>)
            \o Separated(Tail(ids))
ContentOf(ids, encoding, compression) ==
    <<10>> \o (IF encoding = "csv" THEN Separated(ids)
               ELSE IF compression = "" THEN EncodeBase64(BytesOf(ids))
               ELSE EncodeBase64(ZlibStream(BytesOf(ids)))) \o <<10>>

\* encodedStart to encodedEnd of the Base64 branch: the content without the
\* white space around it
RECURSIVE TrimmedEnd(_)
TrimmedEnd(str) ==
    IF Len(str) > 1 /\ isspace(str[Len(str)]) THEN TrimmedEnd(SubSeq(str, 1, Len(str) - 1))
    ELSE str
Encoded(content) == TrimmedEnd(SkipSpace(content))

\* <layer><data encoding="..." [compression="..."]>content</data></layer>
\* read by the handlers, from a state of zeroes: the state they leave
LayerOfData(content, encoding, compression, saturates) ==
    Let(AttributeOfData(BeginLayer(ZeroState), "encoding", encoding), LAMBDA begun :
    Let(IF compression = "" THEN begun
        ELSE AttributeOfData(begun, "compression", compression), LAMBDA opened :
    Let(DecodeDataBase64(Encoded(content)), LAMBDA decoded :
        EndLayer(EndData(opened, content, decoded, 0,
                         IF encoding = "csv" THEN Null
                         ELSE DecompressData(Drop(decoded.at, 2)),
                         saturates).state).state)))

DataEncodings ==
    {[name |-> "csv", encoding |-> "csv", compression |-> ""],
     [name |-> "base64", encoding |-> "base64", compression |-> ""],
     [name |-> "zlib", encoding |-> "base64", compression |-> "zlib"]}

InitDecoders ==
    /\ doc = << >>
    /\ context = hoxml_init(Uninitialized(0), 4096, MaxBufferLength)
    /\ xml = NULL
    /\ xml_length = 0
    /\ mem = << >>
    /\ fed = << >>
    /\ code = HOXML_ERROR_INVALID_INPUT
    /\ tokens = << >>
    /\ before = context
    /\ call = [did |-> "init", after |-> HOXML_ERROR_INVALID_INPUT, moved |-> FALSE]
    /\ charSigned = FALSE
    /\ \E n \in 1..MaxIdentifiers : \E ids \in [1..n -> Identifiers] :
            load = [pc |-> "parsing", ids |-> ids, decoded |-> << >>]
    /\ raytmxState = ZeroState
    /\ map = Null

\* The identifiers are read from one of their encodings
DecodeData ==
    /\ \E as \in DataEncodings, saturates \in BOOLEAN :
            /\ \A i \in DOMAIN load.decoded : load.decoded[i].name # as.name
            /\ raytmxState' = LayerOfData(ContentOf(load.ids, as.encoding, as.compression),
                                          as.encoding, as.compression, saturates)
            /\ load' = [load EXCEPT !.decoded =
                            Append(@, [name |-> as.name,
                                       tiles |-> raytmxState'.layers[1].tiles,
                                       tilesLength |-> raytmxState'.layers[1].tilesLength])]
    /\ UNCHANGED <<hoxmlVars, map>>

NextDecoders == DecodeData

SpecDecoders == InitDecoders /\ [][NextDecoders]_vars

\* C29: the same identifiers written as comma-separated values, as Base64 and
\* as Base64 of a zlib stream are read into the identical array
DecodersAgree ==
    \A i, j \in DOMAIN load.decoded :
        /\ load.decoded[i].tiles = load.decoded[j].tiles
        /\ load.decoded[i].tilesLength = load.decoded[j].tilesLength

(***************************************************************************)
(* Specification of UTF-16LE documents: a well-formed document of at most  *)
(* MaxUtf16Pieces tags and texts is written in UTF-16LE after the byte     *)
(* order mark FF FE and handed over in one piece.  What hoxml_parse        *)
(* returns is set against the run over the same document in UTF-8.         *)
(***************************************************************************)
MaxUtf16Pieces == 4

Utf16Pieces == {OpenA, OpenASpace, OpenBAttributes, CloseA, CloseB, TextT}

\* The characters of a string of the pieces (all of them ASCII) in UTF-16LE
RECURSIVE Utf16Le(_)
Utf16Le(bytes) ==
    IF bytes = << >> THEN << >> ELSE <<Head(bytes), 0>> \o Utf16Le(Tail(bytes))

Utf16Documents ==
    {<<Other(<<255, 254>>), Other(Utf16Le(Flatten(d)))>> :
        d \in {e \in Pieced(Utf16Pieces, MaxUtf16Pieces) : WellFormed(e)}}

InitUtf16 == InitWith(MaxBufferLength, Utf16Documents)

SpecUtf16 == InitUtf16 /\ [][Next]_vars

\* The code points of a string in UTF-16LE, up to its terminator, and of a
\* string in UTF-8 (of code points below U+0800)
RECURSIVE Utf16Codepoints(_)
Utf16Codepoints(bytes) ==
    IF Len(bytes) < 2 \/ (bytes[1] = 0 /\ bytes[2] = 0) THEN << >>
    ELSE <<bytes[1] + 256 * bytes[2]>> \o Utf16Codepoints(Drop(bytes, 2))
RECURSIVE Utf8Codepoints(_)
Utf8Codepoints(bytes) ==
    IF bytes = << >> THEN << >>
    ELSE IF bytes[1] < 128 \/ Len(bytes) < 2
    THEN <<bytes[1]>> \o Utf8Codepoints(Tail(bytes))
    ELSE <<(bytes[1] % 32) * 64 + (bytes[2] % 64)>> \o Utf8Codepoints(Drop(bytes, 2))

\* The document in UTF-8 without a byte order mark
RECURSIVE Transliterated(_)
Transliterated(codepoints) ==
    IF codepoints = << >> THEN << >>
    ELSE Utf8(Head(codepoints)) \o Transliterated(Tail(codepoints))
Utf8Document(pieces) == Transliterated(Utf16Codepoints(pieces[2].bytes))

\* The strings of a token as code points: of the token that the call on a
\* UTF-16LE document has just returned, and of a token of the run in UTF-8
Utf16String(ctx, p) ==
    IF p = NULL THEN NullString ELSE Utf16Codepoints(BytesFrom(ctx, p))
Utf16Token(ctx, returned) ==
    [code |-> returned,
     tag |-> Utf16String(ctx, ctx.tag),
     attribute |-> IF returned = HOXML_ATTRIBUTE THEN Utf16String(ctx, ctx.attribute)
                   ELSE << >>,
     value |-> IF returned = HOXML_ATTRIBUTE THEN Utf16String(ctx, ctx.value) ELSE << >>,
     content |-> IF returned \in {HOXML_ELEMENT_END, HOXML_PROCESSING_INSTRUCTION_END}
                 THEN Utf16String(ctx, ctx.content) ELSE << >>]
Utf8String(str) == IF str = NullString THEN str ELSE Utf8Codepoints(str)
Utf8Token(token) ==
    [code |-> token.code, tag |-> Utf8String(token.tag),
     attribute |-> Utf8String(token.attribute), value |-> Utf8String(token.value),
     content |-> Utf8String(token.content)]

\* C30: a document that begins with the UTF-16LE byte order mark yields the
\* tokens of its transliteration to UTF-8, one for one and with the same
\* strings, and ends as it does
Utf16LeAsUtf8 ==
    LET run == WholeDocument(Utf8Document(doc), MaxBufferLength, charSigned) IN
    /\ (xml # NULL /\ code > HOXML_END_OF_DOCUMENT)
            => /\ ~context.ub
               /\ Len(tokens) <= Len(run.tokens)
               /\ TextOf(Utf16Token(context, code)) = TextOf(Utf8Token(run.tokens[Len(tokens)]))
    /\ RunEnded => (~context.ub /\ code = run.code /\ Len(tokens) = Len(run.tokens))

(***************************************************************************)
(* Specification of the nesting depth: a well-formed document of at most   *)
(* MaxDepthPieces tags and texts, with and without attributes, handed over *)
(* in one piece                                                            *)
(***************************************************************************)
MaxDepthPieces == 4

DepthDocuments ==
    {d \in Pieced({OpenA, OpenBAttributes, CloseA, CloseB, TextT}, MaxDepthPieces) :
        WellFormed(d)}

InitDepth == InitWith(MaxBufferLength, DepthDocuments)

SpecDepth == InitDepth /\ [][Next]_vars

\* The number of elements that enclose the element of the token returned last:
\* the elements begun before it and not ended
LevelOfToken ==
    Cardinality(TokensOf(HOXML_ELEMENT_BEGIN)) - Cardinality(TokensOf(HOXML_ELEMENT_END))
        - (IF code = HOXML_ELEMENT_END THEN 0 ELSE 1)

\* C31: at every element-begin, attribute and element-end token the depth is
\* the number of open elements that enclose the token's element, and it is 0
\* when HOXML_END_OF_DOCUMENT is returned
DepthIsLevel ==
    /\ (xml # NULL /\ ~context.ub /\ code \in {HOXML_ELEMENT_BEGIN, HOXML_ATTRIBUTE,
                                              HOXML_ELEMENT_END})
            => context.depth = LevelOfToken
    /\ (xml # NULL /\ ~context.ub /\ code = HOXML_END_OF_DOCUMENT) => context.depth = 0

(***************************************************************************)
(* Specification of the termination of a load: LoadTMX handles one token   *)
(* after another of a finite document without waiting for anything, so a   *)
(* step that can be taken is taken.  Every step changes 'load'             *)
(***************************************************************************)
SpecTerminates == SpecExternal /\ WF_load(NextExternal)

\* C32: LoadTMX terminates: every load of a document with external tilesets
\* and templates comes to its end, LoadCachedTemplate having returned each time
LoadTerminates == <>(load.pc = "done")

\* The indices of gidsToTiles that LoadTMX writes for a tileset: id + firstGid
\* for every id below tileCount of a shared image, firstGid + the id of every
\* tile with an image of a collection of images
WrittenIndices(tileset) ==
    IF tileset.hasImage
    THEN IF tileset.columns = 0 THEN {}
         ELSE {id + tileset.firstGid : id \in 0..(tileset.tileCount - 1)}
    ELSE {tileset.firstGid + tileset.tiles.at[j].id :
            j \in {k \in 1..tileset.tilesLength : tileset.tiles.at[k].hasImage}}

\* C33: every index at which LoadTMX writes gidsToTiles while it builds the
\* table, for tilesets of either kind, is less than gidsToTilesLength
WritesInsideTable ==
    (load.map = "populated" /\ map.gidsToTilesLength > 0)
        => \A i \in DOMAIN map.tilesets :
           \A index \in WrittenIndices(map.tilesets[i]) :
                index \in 0..(map.gidsToTilesLength - 1)

\* The number of <properties> elements that are open
OpenProperties == Cardinality({i \in DOMAIN load.open : load.open[i] = "properties"})

\* C34: after every event propertiesDepth is the number of <properties>
\* elements that are open, and so 0 when none is, also after an empty
\* <properties> block has closed
DepthCountsOpenProperties ==
    load.pc = "parsing" => raytmxState.propertiesDepth = OpenProperties

\* The layers of the list that are open: the groups on the way to this place
\* of the document.  Every other layer of the list has closed
OpenLayers == {load.path[i] : i \in DOMAIN load.path}

\* C35: once a layer, object group or group has closed, whether or not it had
\* children, none of the pointers to the current element refers to it.  The
\* documents hold no image layers, so imageLayer stays NULL
ClosedIsNotCurrent ==
    load.pc = "parsing"
        => \A current \in {raytmxState.layer, raytmxState.tileLayer, raytmxState.objectGroup} :
                current # NULL => current \in OpenLayers

(***************************************************************************)
(* Specification of the attributes of the tiles of a tileset: each <tile>  *)
(* carries 'id' and any of 'type', 'class' and 'x', in any order.          *)
(* load.ids holds the values of the 'id's in the order of the document     *)
(***************************************************************************)

\* The attributes of the <tile>s of the documents and the values given to them:
\* id "0" or "1", type "g", class "7", x "4"
TileAttributes == {"id", "type", "class", "x"}
TileValues(attribute) ==
    IF attribute = "id" THEN TileIdValues
    ELSE IF attribute = "type" THEN {<<103>>}
    ELSE IF attribute = "class" THEN {<<55>>}
    ELSE {<<52>>}

InitTiles ==
    /\ doc = << >>
    /\ context = hoxml_init(Uninitialized(0), 4096, MaxBufferLength)
    /\ xml = NULL
    /\ xml_length = 0
    /\ mem = << >>
    /\ fed = << >>
    /\ code = HOXML_ERROR_INVALID_INPUT
    /\ tokens = << >>
    /\ before = context
    /\ call = [did |-> "init", after |-> HOXML_ERROR_INVALID_INPUT, moved |-> FALSE]
    /\ charSigned = FALSE
    /\ load = [pc |-> "parsing", content |-> "text", warned |-> {}, map |-> "none",
               open |-> << >>, head |-> FALSE, given |-> {}, sources |-> << >>,
               ids |-> << >>]
    /\ raytmxState = ZeroState
    /\ map = Null

\* An attribute of the <tile> that it has not got yet
TileGiven ==
    /\ Inside("tile")
    /\ load.head
    /\ \E attribute \in TileAttributes :
       \E value \in TileValues(attribute) :
            /\ \A pair \in load.given : pair[1] # attribute
            /\ raytmxState' = AttributeOfTile(raytmxState, attribute, value)
            /\ load' = [load EXCEPT !.given = @ \cup {<<attribute, value>>}]
    /\ UNCHANGED <<hoxmlVars, map>>

\* </tile> of a tile that has been given its 'id'
TileClosed ==
    /\ Inside("tile")
    /\ \E pair \in load.given :
            /\ pair[1] = "id"
            /\ load' = [Closed EXCEPT !.ids = Append(@, atoi(pair[2]))]
    /\ raytmxState' = EndTile(raytmxState)
    /\ UNCHANGED <<hoxmlVars, map>>

NextTiles ==
    \/ TilesetBegin
    \/ TileBegin
    \/ TileGiven
    \/ TileClosed
    \/ TilesetEnd
    \/ EndOfDocument

SpecTiles == InitTiles /\ [][NextTiles]_vars

\* The ids of the tiles of the tilesets, tileset by tileset
RECURSIVE TileIdsOf(_)
TileIdsOf(tilesets) ==
    IF tilesets = << >> THEN << >>
    ELSE [j \in 1..Head(tilesets).tilesLength |-> Head(tilesets).tiles.at[j].id]
            \o TileIdsOf(Tail(tilesets))

\* C36: in the finished model the id of every tile of a tileset is the value
\* of its 'id' attribute, whatever other attributes the <tile> carries and in
\* whatever order
TileIdIsIdAttribute ==
    load.map = "populated" => TileIdsOf(map.tilesets) = load.ids

(***************************************************************************)
(* Specification of animations: a tileset with a shared image whose tiles  *)
(* may carry an <animation> of up to MaxFrames <frame>s is loaded, and     *)
(* AnimateTMX is called on the map up to MaxAnimateCalls times.  Times are *)
(* in milliseconds: 'duration' is atoi of the attribute, which the code    *)
(* divides by 1000.0f, and the frame time of a call is a whole number of   *)
(* milliseconds.                                                           *)
(***************************************************************************)

\* Bounds of the exploration
MaxFrames == 2
MaxAnimateCalls == 3

\* The values of 'duration' in the documents, "1" and "2", what GetFrameTime
\* returns, and what is read as a duration where there is no frame to read
DurationValues == {<<49>>, <<50>>}
FrameTimes == {1, 2}
Garbage == {0, 3}

\* A frame as AddAnimationFrame allocates it
ZeroFrame == [id |-> 0, duration |-> 0]

\* HandleElementBegin of <animation>
BeginAnimation(state) ==
    IF state.tilesetTile = NULL THEN state
    ELSE [state EXCEPT !.tilesetTiles[state.tilesetTile].hasAnimation = TRUE]

\* HandleElementBegin of <frame>: AddAnimationFrame
BeginFrame(state) ==
    [state EXCEPT
        !.animationFrames = Append(SubSeq(@, 1, state.animationFramesLength), ZeroFrame),
        !.animationFramesLength = @ + 1,
        !.animationFrame = state.animationFramesLength + 1]

\* HandleAttribute of <frame>
AttributeOfFrame(state, attribute, value) ==
    IF state.animationFrame = NULL THEN state
    ELSE IF attribute = "tileid"
    THEN [state EXCEPT !.animationFrames[state.animationFrame].id = atoi(value)]
    ELSE IF attribute = "duration"
    THEN [state EXCEPT !.animationFrames[state.animationFrame].duration = atoi(value)]
    ELSE state

\* HandleElementEnd of <frame>
EndFrame(state) == [state EXCEPT !.animationFrame = NULL]

\* HandleElementEnd of <animation>: the list of frames becomes the array of
\* the tile's animation, unless the list is empty
EndAnimation(state) ==
    IF state.tilesetTile = NULL \/ ~state.tilesetTiles[state.tilesetTile].hasAnimation
    THEN state
    ELSE IF state.animationFrames = << >> THEN state
    ELSE [state EXCEPT
            !.tilesetTiles[state.tilesetTile].animation =
                [frames |-> PointerTo(SubSeq(state.animationFrames, 1,
                                             state.animationFramesLength)),
                 framesLength |-> state.animationFramesLength],
            !.animationFrames = << >>, !.animationFramesLength = 0]

\* The tile is one that AnimateTMX animates
Animated(tile) == tile.gid > 0 /\ tile.hasAnimation

\* animation.frames[frameIndex] is a frame of the array
HasFrame(tile) ==
    ~tile.animation.frames.null /\ tile.frameIndex < tile.animation.framesLength

\* AnimateTMX for one tile.  dt is what GetFrameTime returns; garbage is what
\* the read of animation.frames[frameIndex].duration gives where there is no
\* such frame
AnimateTile(tile, dt, garbage) ==
    IF ~Animated(tile) THEN tile
    ELSE Let(IF HasFrame(tile) THEN tile.animation.frames.at[tile.frameIndex + 1].duration
             ELSE garbage,
             LAMBDA duration :
                IF tile.frameTime + dt > duration
                THEN [tile EXCEPT
                        !.frameTime = tile.frameTime + dt - duration,
                        !.frameIndex = IF @ + 1 = tile.animation.framesLength THEN 0
                                       ELSE @ + 1]
                ELSE [tile EXCEPT !.frameTime = tile.frameTime + dt])

\* AnimateTMX
AnimateTMX(loaded, dt, garbage) ==
    IF loaded.gidsToTilesLength = 0 THEN loaded
    ELSE [loaded EXCEPT
            !.gidsToTiles.at = [gid \in DOMAIN @ |-> AnimateTile(@[gid], dt, garbage)],
            !.ub = @ \/ \E gid \in DOMAIN loaded.gidsToTiles.at :
                            /\ Animated(loaded.gidsToTiles.at[gid])
                            /\ ~HasFrame(loaded.gidsToTiles.at[gid])]

InitAnimate ==
    /\ doc = << >>
    /\ context = hoxml_init(Uninitialized(0), 4096, MaxBufferLength)
    /\ xml = NULL
    /\ xml_length = 0
    /\ mem = << >>
    /\ fed = << >>
    /\ code = HOXML_ERROR_INVALID_INPUT
    /\ tokens = << >>
    /\ before = context
    /\ call = [did |-> "init", after |-> HOXML_ERROR_INVALID_INPUT, moved |-> FALSE]
    /\ charSigned = FALSE
    /\ load = [pc |-> "parsing", content |-> "text", warned |-> {}, map |-> "none",
               open |-> << >>, head |-> FALSE, given |-> {}, sources |-> << >>,
               calls |-> 0, noFrame |-> FALSE]
    /\ raytmxState = ZeroState
    /\ map = Null

\* <tileset firstgid="1" tilecount="2" columns="1"><image source="..."/>
AnimatedTileset ==
    /\ load.pc = "parsing"
    /\ load.open = << >>
    /\ raytmxState.tilesets = << >>
    /\ \E begun \in {BeginImage(
                        AttributeOfTileset(
                            AttributeOfTileset(
                                AttributeOfTileset(BeginTileset(raytmxState),
                                                   "firstgid", <<49>>, NoExternalTileset),
                                "tilecount", <<50>>, NoExternalTileset),
                            "columns", <<49>>, NoExternalTileset))} :
            raytmxState' = EndImage(AttributeOfImage(begun.state, "source", PointerTo(1)))
    /\ load' = [Opened("tileset") EXCEPT !.head = FALSE]
    /\ UNCHANGED <<hoxmlVars, map>>

\* <animation> in a <tile>
AnimationBegin ==
    /\ Inside("tile")
    /\ ~raytmxState.tilesetTiles[raytmxState.tilesetTile].hasAnimation
    /\ raytmxState' = BeginAnimation(raytmxState)
    /\ load' = Opened("animation")
    /\ UNCHANGED <<hoxmlVars, map>>

\* <frame tileid="0" duration="..."/>
Frame ==
    /\ Inside("animation")
    /\ raytmxState.animationFramesLength < MaxFrames
    /\ \E duration \in DurationValues :
            raytmxState' =
                EndFrame(AttributeOfFrame(AttributeOfFrame(BeginFrame(raytmxState),
                                                           "tileid", <<48>>),
                                          "duration", duration))
    /\ load' = [load EXCEPT !.head = FALSE]
    /\ UNCHANGED <<hoxmlVars, map>>

\* </animation>
AnimationEnd ==
    /\ Inside("animation")
    /\ raytmxState' = EndAnimation(raytmxState)
    /\ load' = Closed
    /\ UNCHANGED <<hoxmlVars, map>>

\* A call of AnimateTMX on the loaded map.  load.noFrame tells whether a call
\* has read a frame of an animation that has no frames
Animate ==
    /\ load.pc = "done"
    /\ load.calls < MaxAnimateCalls
    /\ \E dt \in FrameTimes, garbage \in Garbage :
            map' = AnimateTMX(map, dt, garbage)
    /\ load' = [load EXCEPT
                    !.calls = @ + 1,
                    !.noFrame = @ \/ (/\ map.gidsToTilesLength > 0
                                      /\ \E gid \in DOMAIN map.gidsToTiles.at :
                                            /\ Animated(map.gidsToTiles.at[gid])
                                            /\ map.gidsToTiles.at[gid].animation.framesLength
                                                    = 0)]
    /\ UNCHANGED <<hoxmlVars, raytmxState>>

NextAnimate ==
    \/ AnimatedTileset
    \/ TileBegin
    \/ TileAttribute
    \/ AnimationBegin
    \/ Frame
    \/ AnimationEnd
    \/ TileEnd
    \/ TilesetEnd
    \/ EndOfDocument
    \/ Animate

SpecAnimate == InitAnimate /\ [][NextAnimate]_vars

\* C37: after any number of calls of AnimateTMX on a loaded map the
\* frameIndex of every animated tile is an index of the frames of its
\* animation, and no call has read a frame of an animation without frames
FrameIndexInFrames ==
    (load.pc = "done" /\ map.gidsToTilesLength > 0)
        => /\ \A gid \in DOMAIN map.gidsToTiles.at :
                Animated(map.gidsToTiles.at[gid])
                    => map.gidsToTiles.at[gid].frameIndex
                            < map.gidsToTiles.at[gid].animation.framesLength
           /\ ~load.noFrame

(***************************************************************************)
(* Specification of characters received in parts: a UTF-8 document whose   *)
(* text is one character of two, three or four bytes is handed over in     *)
(* chunks of up to MaxChunk bytes                                          *)
(***************************************************************************)
Euro == <<226, 130, 172>>            \* U+20AC
Grinning == <<240, 159, 152, 128>>   \* U+1F600

PartialDocuments ==
    {<<Piece(Utf8Bom, "mark", << >>, << >>), OpenA, Text(character), CloseA>> :
        character \in {Eacute, Euro, Grinning}}

InitPartial == InitWith(MaxBufferLength, PartialDocuments)

SpecPartial == InitPartial /\ [][NextChunked]_vars

\* hoxml_parse is called with the next chunk after HOXML_ERROR_UNEXPECTED_EOF
\* has left the first bytes of a character in the stream
ResumesPartial ==
    /\ context.state = HOXML_STATE_ERROR_UNEXPECTED_EOF
    /\ context.stream_length > 0
    /\ ~context.ub
    /\ fed' # fed

\* C38: when hoxml_parse resumes with a partial character in the stream, the
\* number of bytes it copies from the new chunk to the stream is neither more
\* than the length of the chunk nor more than the room left in the four bytes
\* of the stream
CopyFitsChunkAndStream ==
    [][ResumesPartial
            => /\ BytesToCopy(context, xml_length') >= 0
               /\ BytesToCopy(context, xml_length') <= xml_length'
               /\ BytesToCopy(context, xml_length') <= 4 - context.stream_length]_vars

(***************************************************************************)
(* Specification of what a load holds: LoadTMX allocates the map,          *)
(* ParseDocument the file text and the working buffer, and the handlers    *)
(* the nodes of the staging lists; load.held names the allocations of      *)
(* LoadTMX and ParseDocument that have not been released, and the staging  *)
(* lists are those of raytmxState                                          *)
(***************************************************************************)
MaxHeldPieces == 2

\* <layer> and </layer>
LayerName == <<108, 97, 121, 101, 114>>
OpenLayer == Open(<<60>> \o LayerName \o <<62>>, LayerName, << >>)
CloseLayer == Close(<<60, 47>> \o LayerName \o <<62>>, LayerName)

HeldDocuments == Pieced({OpenLayer, CloseLayer, CloseA}, MaxHeldPieces)

\* FreeState: the caches and the staging lists are freed and zeroed
FreeState(state) ==
    [state EXCEPT
        !.textures = << >>, !.templates = << >>,
        !.property = NULL, !.tileset = NULL, !.image = NULL, !.tilesetTile = NULL,
        !.animationFrame = NULL, !.layer = NULL, !.tileLayer = NULL,
        !.objectGroup = NULL, !.object = NULL,
        !.properties = << >>, !.propertiesLength = 0,
        !.tilesets = << >>,
        !.tilesetTiles = << >>, !.tilesetTilesLength = 0,
        !.animationFrames = << >>, !.animationFramesLength = 0,
        !.layers = << >>,
        !.layerTiles = << >>, !.layerTilesLength = 0,
        !.objects = << >>, !.objectsLength = 0]

\* The staging lists and caches of the state that hold a node
Staged(state) ==
    {list \in {"textures", "templates", "properties", "tilesets", "tilesetTiles",
               "animationFrames", "layers", "layerTiles", "objects"} :
        state[list] # << >>}

\* The handler that ParseDocument calls for a token of the documents
HandleToken(state, token) ==
    IF token.code = HOXML_ELEMENT_BEGIN /\ token.tag = LayerName THEN BeginLayer(state)
    ELSE IF token.code = HOXML_ELEMENT_END /\ token.tag = LayerName THEN EndLayer(state).state
    ELSE state

\* What is held after the turn of ParseDocument's loop in which hoxml_parse
\* returned the code, and after what LoadTMX does when ParseDocument has
\* returned: on HOXML_END_OF_DOCUMENT the text and the buffer are freed and
\* the map is returned; on an error the text is freed and the map unloaded
HeldAfter(held, returned) ==
    IF returned > HOXML_END_OF_DOCUMENT \/ returned = HOXML_ERROR_INSUFFICIENT_MEMORY
    THEN held
    ELSE IF returned = HOXML_END_OF_DOCUMENT THEN held \ {"content", "buffer"}
    ELSE held \ {"content", "map"}

InitHeld ==
    /\ doc \in HeldDocuments
    /\ context = hoxml_init(Uninitialized(0), 4096, MaxBufferLength)
    /\ xml = NULL
    /\ xml_length = 0
    /\ mem = << >>
    /\ fed = << >>
    /\ code = HOXML_ERROR_INVALID_INPUT
    /\ tokens = << >>
    /\ before = context
    /\ call = [did |-> "init", after |-> HOXML_ERROR_INVALID_INPUT, moved |-> FALSE]
    /\ charSigned \in BOOLEAN
    /\ load = [pc |-> "start", content |-> "unread", warned |-> {}, map |-> "none",
               held |-> {"map"}]
    /\ raytmxState = ZeroState
    /\ map = Null

\* LoadFileText fails: ParseDocument returns and LoadTMX unloads the map
FileUnread ==
    /\ load.pc = "start"
    /\ load' = [load EXCEPT !.pc = "done", !.content = "null", !.map = "null",
                            !.held = @ \ {"map"}]
    /\ UNCHANGED <<hoxmlVars, raytmxState, map>>

\* LoadFileText succeeds: the text is held, and the buffer of its length
FileRead ==
    /\ load.pc = "start"
    /\ load' = [load EXCEPT !.pc = "parsing", !.content = "text",
                            !.held = @ \cup {"content", "buffer"}]
    /\ context' = hoxml_init(Uninitialized(0), 4096, Len(Flatten(doc)))
    /\ before' = context'
    /\ UNCHANGED <<xml, xml_length, mem, doc, fed, code, tokens, call, charSigned,
                   raytmxState, map>>

\* What a turn of the loop leaves of the load, of the state and of the map
Turned ==
    /\ load' = [ParseDocumentTurn(load, code', {}) EXCEPT !.held = HeldAfter(@, code')]
    /\ raytmxState' =
            IF code' > HOXML_END_OF_DOCUMENT
            THEN HandleToken(raytmxState, Token(context', code'))
            ELSE IF code' = HOXML_END_OF_DOCUMENT THEN FreeState(raytmxState)
            ELSE raytmxState
    /\ map' = IF code' = HOXML_END_OF_DOCUMENT THEN LoadedMap(raytmxState) ELSE map

\* One turn of the loop: hoxml_parse on the whole text, then the handler
HeldTurn ==
    /\ load.pc = "parsing"
    /\ code # HOXML_ERROR_INSUFFICIENT_MEMORY
    /\ Call(65536, Len(Flatten(doc)), Flatten(doc), IF xml = NULL THEN "new" ELSE "again")
    /\ fed' = Flatten(doc)
    /\ Turned

\* The turn after HOXML_ERROR_INSUFFICIENT_MEMORY: a buffer of twice the
\* length is allocated and the old one freed
HeldGrowTurn ==
    /\ load.pc = "parsing"
    /\ GrowCall
    /\ Turned

NextHeld ==
    \/ FileUnread
    \/ FileRead
    \/ HeldTurn
    \/ HeldGrowTurn

SpecHeld == InitHeld /\ [][NextHeld]_vars

\* C39: when a load has ended, the working buffer and the file text have been
\* released and the staging lists and caches hold nothing; after a load that
\* returns NULL nothing is held
NothingHeld ==
    load.pc = "done"
        => /\ load.held \cap {"content", "buffer"} = {}
           /\ Staged(raytmxState) = {}
           /\ load.map = "null" => load.held = {}

====
